---------------------------- MODULE Spec2Model ----------------------------
(***************************************************************************)
(* Adaptive note-selection engine of music-note-tutor:                     *)
(*   NoteGeneratorService       (core/services/note-generator)             *)
(*   NoteGeneratorConfigService (core/services/note-generator-config)      *)
(*   UserProgressService        (core/services/user-progress)              *)
(*   NoteTutor                  (features/note-tutor)                      *)
(* JavaScript numbers are modelled as exact rationals [n, d]; the one      *)
(* place where IEEE rounding decides a branch (the fallback of             *)
(* performWeightedSelection) is modelled by a draw that exceeds the exact  *)
(* sum of the weights by Ulp.                                              *)
(***************************************************************************)
EXTENDS Integers, Naturals, Sequences, FiniteSets, TLC

VARIABLES
    performanceData,   \* NoteGeneratorService.performanceData: Map in insertion order
    currentLevel,      \* NoteGeneratorService.currentLevel
    recentHistory,     \* NoteGeneratorService.recentHistory, most recent first
    difficultyMode,    \* NoteGeneratorService.difficultyMode
    clefFilter,        \* NoteGeneratorService.clefFilter
    userProgress,      \* UserProgressService.userProgress
    currentNote,       \* NoteTutor.currentNote
    pendingAnswer,     \* NoteTutor.pendingAnswer
    hasAnswered,       \* NoteTutor.hasAnswered
    isProcessing,      \* NoteTutor.isProcessing
    feedback,          \* NoteTutor.feedback (its type)
    input,             \* arguments given to calculateWeights or performWeightedSelection (None in the service runs)
    weightedNotes,     \* calculateWeights' result in the pure-function runs
    result,            \* outcome of the last generateNextNote / performWeightedSelection
    lastRecord,        \* the recordAnswer call made by the last step, with what its checkLevelProgression read
    lastOp,            \* name of the last operation
    localStorage,      \* the browser's localStorage: the text stored under each key of the engine
    candidatePool,     \* history variable: the pool the last generateNextNote built, and under which level and filters
    globalStreak,      \* history variable: the learner's run of consecutive correct recorded answers
    showDifficultyDropdown,  \* NoteTutor.showDifficultyDropdown
    showClefDropdown,  \* NoteTutor.showClefDropdown
    showNoteDropdown,  \* NoteTutor.showNoteDropdown
    noScroll           \* document.body carries the class 'no-scroll'

vars == <<performanceData, currentLevel, recentHistory, difficultyMode, clefFilter,
          userProgress, currentNote, pendingAnswer, hasAnswered, isProcessing, feedback,
          input, weightedNotes, result, lastRecord, lastOp, globalStreak, candidatePool,
          localStorage, showDifficultyDropdown, showClefDropdown, showNoteDropdown, noScroll>>

engineVars == <<performanceData, currentLevel, recentHistory, difficultyMode, clefFilter>>
tutorVars == <<currentNote, pendingAnswer, hasAnswered, isProcessing, feedback>>
pureVars == <<input, weightedNotes>>
ghostVars == <<candidatePool>>
storageVars == <<localStorage>>
menuVars == <<showDifficultyDropdown, showClefDropdown, showNoteDropdown, noScroll>>

None == [kind |-> "none"]

-----------------------------------------------------------------------------
(* JavaScript numbers as exact rationals                                   *)

Abs(x) == IF x < 0 THEN -x ELSE x

RECURSIVE GCD(_, _)
GCD(a, b) == IF b = 0 THEN a ELSE GCD(b, a % b)

Rat(n, d) ==
    LET s == IF d < 0 THEN -1 ELSE 1
        g == GCD(Abs(n), Abs(d))
    IN  [n |-> (s * n) \div g, d |-> (s * d) \div g]

Num(k) == [n |-> k, d |-> 1]
Zero == Num(0)
One == Num(1)

\* products and sums are taken after cancelling common factors, to keep them small
RMul(x, y) ==
    LET g1 == GCD(Abs(x.n), y.d)
        g2 == GCD(Abs(y.n), x.d)
    IN  Rat((x.n \div g1) * (y.n \div g2), (x.d \div g2) * (y.d \div g1))
RDiv(x, y) == RMul(x, Rat(y.d, y.n))
RAdd(x, y) ==
    LET g == GCD(x.d, y.d)
    IN  Rat(x.n * (y.d \div g) + y.n * (x.d \div g), (x.d \div g) * y.d)
RSub(x, y) == RAdd(x, [n |-> -y.n, d |-> y.d])
RLe(x, y) ==
    LET g == GCD(x.d, y.d)
    IN  x.n * (y.d \div g) <= y.n * (x.d \div g)
RLt(x, y) == ~RLe(y, x)
RGe(x, y) == RLe(y, x)
RMax(x, y) == IF RLe(x, y) THEN y ELSE x
\* Math.round: the nearest integer, ties towards +infinity
RRound(x) == (2 * x.n + x.d) \div (2 * x.d)

-----------------------------------------------------------------------------
(* NoteGeneratorConfigService                                              *)

NoteNames == <<"C", "D", "E", "F", "G", "A", "B">>

NoteId(noteName, octave, clef) == noteName \o ToString(octave) \o "-" \o clef

\* generateBaseWeights: one entry per natural note of the range
generateBaseWeights(noteRange, baseWeight) ==
    LET IdsOf(clef) ==
            LET range == IF clef = "treble" THEN noteRange.trebleRange ELSE noteRange.bassRange
            IN  {NoteId(noteRange.allowedNotes[i], octave, clef) :
                    i \in 1..Len(noteRange.allowedNotes), octave \in range.min..range.max}
    IN  [id \in IdsOf("treble") \cup IdsOf("bass") |-> baseWeight]

\* includeAccidentals is absent from the three configurations: undefined, so falsy
createEasyConfig ==
    LET noteRange == [trebleRange |-> [min |-> 1, max |-> 7],
                      bassRange |-> [min |-> 1, max |-> 5],
                      allowedNotes |-> NoteNames,
                      includeAccidentals |-> FALSE]
    IN  [level |-> "easy",
         noteRange |-> noteRange,
         clefDistribution |-> [trebleWeight |-> Rat(7, 10), bassWeight |-> Rat(3, 10)],
         baseWeights |-> generateBaseWeights(noteRange, One),
         progressionCriteria |->
             [minAccuracy |-> Rat(78, 100), minQuestions |-> 35, consecutiveCorrect |-> 7]]

createHardConfig ==
    LET noteRange == [trebleRange |-> [min |-> 3, max |-> 7],
                      bassRange |-> [min |-> 1, max |-> 5],
                      allowedNotes |-> NoteNames,
                      includeAccidentals |-> FALSE]
    IN  [level |-> "hard",
         noteRange |-> noteRange,
         clefDistribution |-> [trebleWeight |-> Rat(5, 10), bassWeight |-> Rat(5, 10)],
         baseWeights |-> generateBaseWeights(noteRange, One),
         progressionCriteria |->
             [minAccuracy |-> Rat(88, 100), minQuestions |-> 150, consecutiveCorrect |-> 12]]

createMixedConfig ==
    LET noteRange == [trebleRange |-> [min |-> 3, max |-> 7],
                      bassRange |-> [min |-> 1, max |-> 5],
                      allowedNotes |-> NoteNames,
                      includeAccidentals |-> FALSE]
    IN  [level |-> "mixed",
         noteRange |-> noteRange,
         clefDistribution |-> [trebleWeight |-> Rat(5, 10), bassWeight |-> Rat(5, 10)],
         baseWeights |-> generateBaseWeights(noteRange, One),
         progressionCriteria |->
             [minAccuracy |-> Rat(83, 100), minQuestions |-> 100, consecutiveCorrect |-> 10]]

\* initializeLevelConfigurations: the Map's keys
ConfiguredLevels == {"easy", "hard", "mixed"}

\* initializeLevelConfigurations: the Map built by the constructor
levelConfigurations ==
    [level \in ConfiguredLevels |->
        CASE level = "easy" -> createEasyConfig
          [] level = "hard" -> createHardConfig
          [] level = "mixed" -> createMixedConfig]

\* getLevelConfiguration falling back to the first level's configuration
getLevelConfigurationDefaulting(level) ==
    IF level \in DOMAIN levelConfigurations
    THEN levelConfigurations[level]
    ELSE levelConfigurations["easy"]

\* getLevelConfiguration: the configuration, or the thrown Error
getLevelConfiguration(level) ==
    IF level \in DOMAIN levelConfigurations
    THEN levelConfigurations[level]
    ELSE [kind |-> "throw", error |-> "Error: No configuration found for level"]

-----------------------------------------------------------------------------
(* models/difficulty-mode                                                  *)

DIFFICULTY_NOTE_RANGES ==
    [treble |->
        [easy |-> {"E4", "F4", "G4", "A4", "B4", "C5", "D5", "E5", "F5"},
         hard |-> {"C4", "D4", "G5", "A5", "B5", "C6", "D6", "E6", "F6", "G6", "A6",
                   "B6", "C7"}],
     bass |->
        [easy |-> {"G2", "A2", "B2", "C3", "D3", "E3", "F3", "G3", "A3"},
         hard |-> {"C1", "D1", "E1", "F1", "G1", "A1", "B1", "C2", "D2", "E2", "F2",
                   "B3", "C4", "D4", "E4", "F4", "G4", "A4", "B4", "C5"}]]

DifficultyModes == {"default", "easy", "hard"}
ClefFilters == {"both", "treble", "bass"}

-----------------------------------------------------------------------------
(* NoteGeneratorService: candidate pool                                    *)

\* the key built octave first
NoteKeyOctaveFirst(noteName, octave) == ToString(octave) \o noteName

NoteKey(noteName, octave) == noteName \o ToString(octave)

determineStaffPosition(noteName, octave, clef) ==
    LET noteKey == NoteKey(noteName, octave)
    IN  IF clef = "treble"
        THEN CASE noteKey \in {"E4", "G4", "B4", "D5", "F5"} -> "line"
               [] noteKey \in {"F4", "A4", "C5", "E5"} -> "space"
               [] octave < 4 \/ (octave = 4 /\ noteName \in {"C", "D"}) -> "ledger-below"
               [] octave > 5 \/ (octave = 5 /\ noteName \in {"G", "A", "B"}) \/ octave >= 6
                    -> "ledger-above"
               [] OTHER -> "space"
        ELSE CASE noteKey \in {"G2", "B2", "D3", "F3", "A3"} -> "line"
               [] noteKey \in {"A2", "C3", "E3", "G3"} -> "space"
               [] octave < 2 \/ (octave = 2 /\ noteName \in {"E", "F"}) -> "ledger-below"
               [] octave > 3 \/ (octave = 3 /\ noteName \in {"B"}) \/ octave >= 4
                    -> "ledger-above"
               [] OTHER -> "space"

MusicalNote(noteName, octave, clef, accidental) ==
    [name |-> noteName, octave |-> octave, clef |-> clef, accidental |-> accidental,
     position |-> determineStaffPosition(noteName, octave, clef),
     id |-> IF accidental = "none" THEN NoteId(noteName, octave, clef)
            ELSE NoteId(noteName, octave, clef) \o "-" \o accidental]

\* the notes one clef contributes, in the order of the nested loops
ClefCandidates(config, clef) ==
    LET range == IF clef = "treble" THEN config.noteRange.trebleRange
                 ELSE config.noteRange.bassRange
        allowed == config.noteRange.allowedNotes
        variants == IF config.noteRange.includeAccidentals
                    THEN <<"none", "sharp", "flat">> ELSE <<"none">>
        octaves == IF range.max >= range.min THEN range.max - range.min + 1 ELSE 0
        count == octaves * Len(allowed) * Len(variants)
    IN  [i \in 1..count |->
            LET j == (i - 1) \div Len(variants)
            IN  MusicalNote(allowed[(j % Len(allowed)) + 1],
                            range.min + (j \div Len(allowed)),
                            clef,
                            variants[((i - 1) % Len(variants)) + 1])]

\* the catalog: every note of the level, before any filter
AllCandidates(config) == ClefCandidates(config, "treble") \o ClefCandidates(config, "bass")

\* the filters with the difficulty ranges of the treble clef applied to every note
FilterCandidatesTrebleRanges(candidates, mode, filter) ==
    LET InMode(note) == NoteKey(note.name, note.octave) \in DIFFICULTY_NOTE_RANGES.treble[mode]
        InClef(note) == note.clef = filter
        byMode == IF mode # "default" THEN SelectSeq(candidates, InMode) ELSE candidates
    IN  IF filter # "both" THEN SelectSeq(byMode, InClef) ELSE byMode

\* the two filters buildCandidatePool applies to the generated candidates
FilterCandidates(candidates, mode, filter) ==
    LET InMode(note) ==
            LET clefRanges == IF note.clef = "treble" THEN DIFFICULTY_NOTE_RANGES.treble
                              ELSE DIFFICULTY_NOTE_RANGES.bass
            IN  NoteKey(note.name, note.octave) \in clefRanges[mode]
        InClef(note) == note.clef = filter
        byMode == IF mode # "default" THEN SelectSeq(candidates, InMode) ELSE candidates
    IN  IF filter # "both" THEN SelectSeq(byMode, InClef) ELSE byMode

\* the filtered catalog of every configured level under every filter setting, tabulated
CandidatePools ==
    [level \in ConfiguredLevels, mode \in DifficultyModes, filter \in ClefFilters |->
        FilterCandidates(AllCandidates(getLevelConfiguration(level)), mode, filter)]

\* buildCandidatePool leaving out the notes of the selection history
buildCandidatePoolWithoutRecent(level, mode, filter, context) ==
    LET Fresh(note) == \A i \in 1..Len(context.recentHistory) :
                          context.recentHistory[i].id # note.id
    IN  SelectSeq(CandidatePools[level, mode, filter], Fresh)

\* buildCandidatePool(context), with the level and the filters it reads from the signals;
\* context is [performanceMap, recentHistory]
buildCandidatePool(level, mode, filter, context) == CandidatePools[level, mode, filter]

-----------------------------------------------------------------------------
(* NoteGeneratorService: weights                                           *)

\* Map.get on the ledger: the entry's index, 0 when the id has no record
PerfIndex(performanceMap, noteId) ==
    IF \E i \in 1..Len(performanceMap) : performanceMap[i].noteId = noteId
    THEN CHOOSE i \in 1..Len(performanceMap) : performanceMap[i].noteId = noteId
    ELSE 0

\* Array.findIndex on the history, 0-based, -1 when absent
FindIndex(history, noteId) ==
    IF \E i \in 1..Len(history) : history[i].id = noteId
    THEN (CHOOSE i \in 1..Len(history) :
             /\ history[i].id = noteId
             /\ \A j \in 1..(i - 1) : history[j].id # noteId) - 1
    ELSE -1

WithWeight(note, weight) ==
    [name |-> note.name, octave |-> note.octave, clef |-> note.clef,
     accidental |-> note.accidental, position |-> note.position, id |-> note.id,
     weight |-> weight]

WithoutWeight(weighted) ==
    [name |-> weighted.name, octave |-> weighted.octave, clef |-> weighted.clef,
     accidental |-> weighted.accidental, position |-> weighted.position,
     id |-> weighted.id]

\* a floor of 0 in place of 0.01
MinimumWeightZero == Zero

\* the floor of the final Math.max
MinimumWeight == Rat(1, 100)

\* the recency penalty without its floor of 0.1
RecencyPenaltyWithoutFloor(recentIndex) ==
    RSub(One, RMul(Num(recentIndex + 1), Rat(3, 10)))

\* the recency penalty of a note found at 0-based index recentIndex
RecencyPenalty(recentIndex) ==
    RMax(Rat(1, 10), RSub(One, RMul(Num(recentIndex + 1), Rat(3, 10))))

\* calculateWeights' map callback returning the weight without the final Math.max
NoteWeightUnclamped(note, config, performanceMap, history) ==
    LET base == IF note.id \in DOMAIN config.baseWeights
                THEN config.baseWeights[note.id] ELSE One
        k == PerfIndex(performanceMap, note.id)
        afterPerformance ==
            IF k # 0
            THEN LET performance == performanceMap[k]
                     accuracyFactor == RSub(One, performance.accuracy)
                     w1 == RMul(base, RAdd(One, RMul(accuracyFactor, Num(2))))
                     w2 == IF performance.consecutiveIncorrect > 0
                           THEN RMul(w1, RAdd(One, RMul(Num(performance.consecutiveIncorrect),
                                                        Rat(1, 2))))
                           ELSE w1
                 IN  IF performance.consecutiveCorrect > 3 THEN RMul(w2, Rat(7, 10)) ELSE w2
            ELSE RMul(base, Rat(13, 10))
        recentIndex == FindIndex(history, note.id)
        afterRecency == IF recentIndex # -1
                        THEN RMul(afterPerformance, RecencyPenalty(recentIndex))
                        ELSE afterPerformance
        clefWeight == IF note.clef = "treble" THEN config.clefDistribution.trebleWeight
                      ELSE config.clefDistribution.bassWeight
        weight == RMul(afterRecency, clefWeight)
    IN  weight

\* calculateWeights' map callback taking a run of 3 correct answers as mastery already
NoteWeightMasteredAtThree(note, config, performanceMap, history) ==
    LET base == IF note.id \in DOMAIN config.baseWeights
                THEN config.baseWeights[note.id] ELSE One
        k == PerfIndex(performanceMap, note.id)
        afterPerformance ==
            IF k # 0
            THEN LET performance == performanceMap[k]
                     accuracyFactor == RSub(One, performance.accuracy)
                     w1 == RMul(base, RAdd(One, RMul(accuracyFactor, Num(2))))
                     w2 == IF performance.consecutiveIncorrect > 0
                           THEN RMul(w1, RAdd(One, RMul(Num(performance.consecutiveIncorrect),
                                                        Rat(1, 2))))
                           ELSE w1
                 IN  IF performance.consecutiveCorrect >= 3 THEN RMul(w2, Rat(7, 10)) ELSE w2
            ELSE RMul(base, Rat(13, 10))
        recentIndex == FindIndex(history, note.id)
        afterRecency == IF recentIndex # -1
                        THEN RMul(afterPerformance, RecencyPenalty(recentIndex))
                        ELSE afterPerformance
        clefWeight == IF note.clef = "treble" THEN config.clefDistribution.trebleWeight
                      ELSE config.clefDistribution.bassWeight
        weight == RMul(afterRecency, clefWeight)
    IN  RMax(MinimumWeight, weight)

\* the body of calculateWeights' map callback
NoteWeight(note, config, performanceMap, history) ==
    LET base == IF note.id \in DOMAIN config.baseWeights
                THEN config.baseWeights[note.id] ELSE One
        k == PerfIndex(performanceMap, note.id)
        afterPerformance ==
            IF k # 0
            THEN LET performance == performanceMap[k]
                     accuracyFactor == RSub(One, performance.accuracy)
                     w1 == RMul(base, RAdd(One, RMul(accuracyFactor, Num(2))))
                     w2 == IF performance.consecutiveIncorrect > 0
                           THEN RMul(w1, RAdd(One, RMul(Num(performance.consecutiveIncorrect),
                                                        Rat(1, 2))))
                           ELSE w1
                 IN  IF performance.consecutiveCorrect > 3 THEN RMul(w2, Rat(7, 10)) ELSE w2
            ELSE RMul(base, Rat(13, 10))
        recentIndex == FindIndex(history, note.id)
        afterRecency == IF recentIndex # -1
                        THEN RMul(afterPerformance, RecencyPenalty(recentIndex))
                        ELSE afterPerformance
        clefWeight == IF note.clef = "treble" THEN config.clefDistribution.trebleWeight
                      ELSE config.clefDistribution.bassWeight
        weight == RMul(afterRecency, clefWeight)
    IN  RMax(MinimumWeight, weight)

calculateWeights(notes, config, performanceMap, history) ==
    [i \in 1..Len(notes) |->
        WithWeight(notes[i], NoteWeight(notes[i], config, performanceMap, history))]

-----------------------------------------------------------------------------
(* NoteGeneratorService: weighted selection                                *)

\* reduce((sum, note) => sum + note.weight, acc) over elements i..k, left to right:
\* the range is walked in order, in two halves (the test of the accumulator makes the
\* sum of the first half a value before the second half starts)
RECURSIVE ReduceSum(_, _, _, _)
ReduceSum(weighted, i, k, acc) ==
    IF i > k THEN acc
    ELSE IF i = k THEN RAdd(acc, weighted[i].weight)
    ELSE LET mid == (i + k) \div 2
             sum == ReduceSum(weighted, i, mid, acc)
         IN  IF sum.d > 0 THEN ReduceSum(weighted, mid + 1, k, sum) ELSE sum

\* the sum of the first k weights
PrefixWeight(weighted, k) == ReduceSum(weighted, 1, k, Zero)

TotalWeight(weighted) == PrefixWeight(weighted, Len(weighted))

\* iterations i..k (i <= k) of performWeightedSelection's for-loop, `random` being the
\* running remainder before iteration i: the index at which the loop returns, or the
\* remainder it carries past k. The range is walked in order, in two halves.
RECURSIVE ForLoop(_, _, _, _)
ForLoop(weighted, i, k, random) ==
    IF i = k
    THEN LET remaining == RSub(random, weighted[i].weight)
         IN  IF RLe(remaining, Zero)
             THEN [kind |-> "return", at |-> i]
             ELSE [kind |-> "continue", random |-> remaining]
    ELSE LET mid == (i + k) \div 2
             first == ForLoop(weighted, i, mid, random)
         IN  IF first.kind = "return"
             THEN first
             ELSE ForLoop(weighted, mid + 1, k, first.random)

\* performWeightedSelection's loop without the fallback after it: past the end nothing
\* is returned
SelectionLoopNoFallback(weighted, i, random) ==
    LET loop == IF i > Len(weighted)
                THEN [kind |-> "continue", random |-> random]
                ELSE ForLoop(weighted, i, Len(weighted), random)
    IN  IF loop.kind = "return"
        THEN [kind |-> "ok", note |-> WithoutWeight(weighted[loop.at]), fallback |-> FALSE]
        ELSE [kind |-> "ok", note |-> [id |-> "undefined"], fallback |-> TRUE]

\* the for-loop of performWeightedSelection from element i on, `random` being the
\* running remainder; past the end, the fallback to the last element, which for an
\* empty array destructures undefined and throws a TypeError
SelectionLoop(weighted, i, random) ==
    LET loop == IF i > Len(weighted)
                THEN [kind |-> "continue", random |-> random]
                ELSE ForLoop(weighted, i, Len(weighted), random)
    IN  IF loop.kind = "return"
        THEN [kind |-> "ok", note |-> WithoutWeight(weighted[loop.at]), fallback |-> FALSE]
        ELSE IF Len(weighted) = 0
             THEN [kind |-> "throw", error |-> "TypeError"]
             ELSE [kind |-> "ok", note |-> WithoutWeight(weighted[Len(weighted)]),
                   fallback |-> TRUE]

\* performWeightedSelection with random = Math.random() * totalWeight given
performWeightedSelection(weighted, random) == SelectionLoop(weighted, 1, random)

\* the remainder left by IEEE rounding when the subtractions do not cancel the sum
Ulp == Rat(1, 1000)

\* Values of Math.random() * totalWeight: for a selector [at |-> i, frac |-> f] with
\* i >= 1 the point a fraction f into the i-th candidate's interval; for RoundingSelector
\* a value whose running remainder stays positive after the last subtraction.
RoundingSelector == [at |-> 0, frac |-> Zero]

DrawValue(weighted, selector) ==
    IF selector = RoundingSelector
    THEN RAdd(TotalWeight(weighted), Ulp)
    ELSE RAdd(PrefixWeight(weighted, selector.at - 1),
              RMul(selector.frac, weighted[selector.at].weight))

RandomDraws(weighted, selectors) ==
    IF Len(weighted) = 0
    THEN {Zero}
    ELSE {DrawValue(weighted, s) :
            s \in {t \in selectors : t.at \in 0..Len(weighted)}}

-----------------------------------------------------------------------------
(* NoteGeneratorService: history                                           *)

maxHistorySize == 10

\* Array.slice(0, n)
Slice(seq, n) == SubSeq(seq, 1, IF Len(seq) < n THEN Len(seq) ELSE n)

\* updateHistory keeping maxHistorySize earlier entries behind the new one
updateHistoryKeepsAll(history, note) == <<note>> \o Slice(history, maxHistorySize)

updateHistory(history, note) == <<note>> \o Slice(history, maxHistorySize - 1)

\* what candidatePool keeps of a generateNextNote call: the ids of the pool that
\* buildCandidatePool returned, in order, with the level and filters it was built under
PoolBuilt(level, mode, filter, performanceMap, history) ==
    LET pool == buildCandidatePool(level, mode, filter,
                                   [performanceMap |-> performanceMap,
                                    recentHistory |-> history])
    IN  [kind |-> "pool", level |-> level, mode |-> mode, filter |-> filter,
         ids |-> [i \in 1..Len(pool) |-> pool[i].id]]

\* generateNextNote up to the draw, weighing the level's whole catalog
WeightedCandidatesUnfiltered(level, mode, filter, performanceMap, history) ==
    calculateWeights(AllCandidates(getLevelConfiguration(level)),
                     getLevelConfiguration(level), performanceMap, history)

\* generateNextNote up to the draw: buildCandidatePool, then calculateWeights
WeightedCandidates(level, mode, filter, performanceMap, history) ==
    calculateWeights(buildCandidatePool(level, mode, filter,
                                        [performanceMap |-> performanceMap,
                                         recentHistory |-> history]),
                     getLevelConfiguration(level), performanceMap, history)

\* generateNextNote from the draw on: performWeightedSelection, then updateHistory,
\* which a throw skips
SelectAndRemember(weighted, history, random) ==
    LET selected == performWeightedSelection(weighted, random)
    IN  [result |-> selected,
         recentHistory |-> IF selected.kind = "ok"
                           THEN updateHistory(history, selected.note) ELSE history]

-----------------------------------------------------------------------------
(* NoteGeneratorService: performance ledger                                *)

\* Map.set on a Map that was not copied from the current one
MapSetOnEmptyMap(performanceMap, entry) == <<entry>>

\* Map.set: replaces the entry in place, or appends it
MapSet(performanceMap, entry) ==
    LET k == PerfIndex(performanceMap, entry.noteId)
    IN  IF k # 0 THEN [performanceMap EXCEPT ![k] = entry]
        ELSE Append(performanceMap, entry)

\* (existing?.attempts ?? 0) + 1
newAttempts(existing) == (IF existing # None THEN existing.attempts ELSE 0) + 1

\* newCorrect counting the answer whether or not it was correct
newCorrectAlways(existing, isCorrect) ==
    (IF existing # None THEN existing.correctAnswers ELSE 0) + 1

\* (existing?.correctAnswers ?? 0) + (isCorrect ? 1 : 0)
newCorrect(existing, isCorrect) ==
    (IF existing # None THEN existing.correctAnswers ELSE 0) + (IF isCorrect THEN 1 ELSE 0)

\* newAccuracy divided by the attempts before this one
newAccuracyOverPrevious(correct, attempts) ==
    IF attempts = 1 THEN Rat(correct, 1) ELSE Rat(correct, attempts - 1)

\* newCorrect / newAttempts
newAccuracy(correct, attempts) == Rat(correct, attempts)

consecutiveCorrect(existing, isCorrect) ==
    IF isCorrect THEN (IF existing # None THEN existing.consecutiveCorrect ELSE 0) + 1 ELSE 0

\* consecutiveIncorrect left as it was by a correct answer
consecutiveIncorrectKept(existing, isCorrect) ==
    IF ~isCorrect THEN (IF existing # None THEN existing.consecutiveIncorrect ELSE 0) + 1
    ELSE (IF existing # None THEN existing.consecutiveIncorrect ELSE 0)

consecutiveIncorrect(existing, isCorrect) ==
    IF ~isCorrect THEN (IF existing # None THEN existing.consecutiveIncorrect ELSE 0) + 1 ELSE 0

\* the moving average of the response time
avgResponseTime(existing, responseTime) ==
    IF existing # None
    THEN RDiv(RAdd(RMul(existing.averageResponseTime, Num(existing.attempts)),
                   Num(responseTime)),
              Num(newAttempts(existing)))
    ELSE Num(responseTime)

\* Math.round((1 - newAccuracy) * 100)
difficultyScore(accuracy) == RRound(RMul(RSub(One, accuracy), Num(100)))

\* updatePerformanceData with an incorrect answer ending the run of correct answers of
\* every record, not only the answered note's
updatePerformanceDataBreakingStreaks(performanceMap, note, isCorrect, responseTime) ==
    LET k == PerfIndex(performanceMap, note.id)
        existing == IF k # 0 THEN performanceMap[k] ELSE None
        accuracy == newAccuracy(newCorrect(existing, isCorrect), newAttempts(existing))
        others == [i \in 1..Len(performanceMap) |->
                      IF isCorrect THEN performanceMap[i]
                      ELSE [performanceMap[i] EXCEPT !.consecutiveCorrect = 0]]
    IN  MapSet(others,
               [noteId |-> note.id,
                attempts |-> newAttempts(existing),
                correctAnswers |-> newCorrect(existing, isCorrect),
                accuracy |-> accuracy,
                lastSeen |-> [type |-> "Date"],
                averageResponseTime |-> avgResponseTime(existing, responseTime),
                consecutiveCorrect |-> consecutiveCorrect(existing, isCorrect),
                consecutiveIncorrect |-> consecutiveIncorrect(existing, isCorrect),
                difficultyScore |-> difficultyScore(accuracy)])

updatePerformanceData(performanceMap, note, isCorrect, responseTime) ==
    LET k == PerfIndex(performanceMap, note.id)
        existing == IF k # 0 THEN performanceMap[k] ELSE None
        accuracy == newAccuracy(newCorrect(existing, isCorrect), newAttempts(existing))
    IN  MapSet(performanceMap,
               [noteId |-> note.id,
                attempts |-> newAttempts(existing),
                correctAnswers |-> newCorrect(existing, isCorrect),
                accuracy |-> accuracy,
                lastSeen |-> [type |-> "Date"],
                averageResponseTime |-> avgResponseTime(existing, responseTime),
                consecutiveCorrect |-> consecutiveCorrect(existing, isCorrect),
                consecutiveIncorrect |-> consecutiveIncorrect(existing, isCorrect),
                difficultyScore |-> difficultyScore(accuracy)])

-----------------------------------------------------------------------------
(* UserProgressService                                                     *)

getDefaultProgress ==
    [currentLevel |-> "easy",
     totalQuestionsAnswered |-> 0,
     overallAccuracy |-> Zero,
     levelProgression |->
        <<[level |-> "easy", questionsAtLevel |-> 0, accuracyAtLevel |-> Zero]>>]

updateLevel(progress, newLevel) ==
    IF \E i \in 1..Len(progress.levelProgression) :
            progress.levelProgression[i].level = newLevel
    THEN [progress EXCEPT !.currentLevel = newLevel]
    ELSE [progress EXCEPT
            !.currentLevel = newLevel,
            !.levelProgression =
                Append(@, [level |-> newLevel, questionsAtLevel |-> 0,
                           accuracyAtLevel |-> Zero])]

\* recordQuestionAttempt counting the question but leaving the accuracy as it was
recordQuestionAttemptKeepingAccuracy(progress, isCorrect) ==
    [progress EXCEPT !.totalQuestionsAnswered = @ + 1]

recordQuestionAttempt(progress, isCorrect) ==
    LET newTotalQuestions == progress.totalQuestionsAnswered + 1
        currentCorrect ==
            RRound(RMul(progress.overallAccuracy, Num(progress.totalQuestionsAnswered)))
        newCorrectTotal == currentCorrect + (IF isCorrect THEN 1 ELSE 0)
        newOverallAccuracy == IF newTotalQuestions > 0 THEN Rat(newCorrectTotal, newTotalQuestions)
                       ELSE Zero
        AtLevel(progression) ==
            IF progression.level = progress.currentLevel
            THEN LET levelQuestions == progression.questionsAtLevel + 1
                     levelCorrect == RRound(RMul(progression.accuracyAtLevel,
                                                 Num(progression.questionsAtLevel)))
                     newLevelCorrect == levelCorrect + (IF isCorrect THEN 1 ELSE 0)
                 IN  [progression EXCEPT
                        !.questionsAtLevel = levelQuestions,
                        !.accuracyAtLevel = IF levelQuestions > 0
                                            THEN Rat(newLevelCorrect, levelQuestions)
                                            ELSE Zero]
            ELSE progression
    IN  [progress EXCEPT
            !.totalQuestionsAnswered = newTotalQuestions,
            !.overallAccuracy = newOverallAccuracy,
            !.levelProgression = [i \in 1..Len(@) |-> AtLevel(@[i])]]

-----------------------------------------------------------------------------
(* NoteGeneratorService: level progression                                 *)

\* "simplified for now": the stub returns 0
countRecentCorrectAnswers == 0

AdvanceLevels == <<"easy", "hard">>

\* Array.indexOf, 0-based, -1 when absent
IndexOf(seq, x) ==
    IF \E i \in 1..Len(seq) : seq[i] = x
    THEN (CHOOSE i \in 1..Len(seq) : seq[i] = x /\ \A j \in 1..(i - 1) : seq[j] # x) - 1
    ELSE -1

\* advanceLevel: the engine's level and the progress service's record afterwards
advanceLevel(level, progress) ==
    LET currentIndex == IndexOf(AdvanceLevels, level)
    IN  IF currentIndex < Len(AdvanceLevels) - 1
        THEN LET newLevel == AdvanceLevels[(currentIndex + 1) + 1]
             IN  [currentLevel |-> newLevel, userProgress |-> updateLevel(progress, newLevel)]
        ELSE [currentLevel |-> level, userProgress |-> progress]

\* the progression test without the consecutive-correct criterion
MeetsCriteriaWithoutStreak(meetsAccuracy, meetsQuestions, meetsConsecutive) ==
    meetsAccuracy /\ meetsQuestions

\* the condition under which checkLevelProgression calls advanceLevel
MeetsCriteria(meetsAccuracy, meetsQuestions, meetsConsecutive) ==
    meetsAccuracy /\ meetsQuestions /\ meetsConsecutive

\* checkLevelProgression: what it read, what it decided and the state it leaves
checkLevelProgression(level, progress) ==
    LET config == getLevelConfiguration(level)
        meetsAccuracy == RGe(progress.overallAccuracy, config.progressionCriteria.minAccuracy)
        meetsQuestions ==
            progress.totalQuestionsAnswered >= config.progressionCriteria.minQuestions
        recentCorrect == countRecentCorrectAnswers
        meetsConsecutive == recentCorrect >= config.progressionCriteria.consecutiveCorrect
        advance == MeetsCriteria(meetsAccuracy, meetsQuestions, meetsConsecutive)
        after == IF advance THEN advanceLevel(level, progress)
                 ELSE [currentLevel |-> level, userProgress |-> progress]
    IN  [currentLevel |-> after.currentLevel,
         userProgress |-> after.userProgress,
         read |-> [level |-> level,
                   overallAccuracy |-> progress.overallAccuracy,
                   totalQuestionsAnswered |-> progress.totalQuestionsAnswered,
                   recentCorrect |-> recentCorrect,
                   advanceCalled |-> advance]]

\* recordAnswer: updatePerformanceData, then checkLevelProgression
recordAnswer(performanceMap, level, progress, note, isCorrect, responseTimeMs) ==
    LET checked == checkLevelProgression(level, progress)
    IN  [performanceData |-> updatePerformanceData(performanceMap, note, isCorrect,
                                                   responseTimeMs),
         currentLevel |-> checked.currentLevel,
         userProgress |-> checked.userProgress,
         read |-> checked.read]

-----------------------------------------------------------------------------
(* NoteTutor helpers                                                       *)

\* String.toUpperCase on one character
ToUpperCase(c) ==
    CASE c = "a" -> "A" [] c = "b" -> "B" [] c = "c" -> "C" [] c = "d" -> "D"
      [] c = "e" -> "E" [] c = "f" -> "F" [] c = "g" -> "G" [] OTHER -> c

\* validateAnswer; an answer is the sequence of its characters, the sharp and flat
\* signs being "U+266F" and "U+266D"
validateAnswer(userAnswer, note) ==
    LET Kept(c) == c \notin {"#", "U+266F", "U+266D", "b"}
        stripped == SelectSeq(userAnswer, Kept)
        normalizedAnswer == [i \in 1..Len(stripped) |-> ToUpperCase(stripped[i])]
    IN  normalizedAnswer = <<note.name>>

-----------------------------------------------------------------------------
(* Bounds of the runs                                                      *)

\* candidates of the pool a draw may land on (by index), besides the rounding draw
NDraw == 1
\* catalog notes recordAnswer is called with
NItems == 2
\* recordAnswer calls in the service runs
MaxAttempts == 3
\* generateNextNote calls before the service run stops generating
MaxGenerated == 1
\* answers the tutor takes in the progression run
MaxQuestions == 36
\* incorrect answers among them
MaxIncorrect == 1

DrawFractions == {Zero, Rat(1, 2)}

Selectors(n) == {[at |-> i, frac |-> f] : i \in 1..n, f \in DrawFractions}
ServiceSelectors == Selectors(NDraw) \cup {RoundingSelector}
MidpointSelector == {[at |-> 1, frac |-> Rat(1, 2)]}

ResponseTimes == {750}

RecordableNotes(level) ==
    LET catalog == AllCandidates(getLevelConfiguration(level))
    IN  {catalog[i] : i \in 1..NItems}

RECURSIVE SumAttempts(_, _)
SumAttempts(performanceMap, k) ==
    IF k = 0 THEN 0 ELSE SumAttempts(performanceMap, k - 1) + performanceMap[k].attempts

TotalAttempts == SumAttempts(performanceData, Len(performanceData))

-----------------------------------------------------------------------------
(* StorageService and the engine's persistence                             *)

\* the keys the engine stores under
StorageKeys == {"performance-data", "recent-history", "current-level"}

\* localStorage with none of the keys present (getItem gives null)
EmptyStorage == [key \in StorageKeys |-> None]

\* Date.prototype.toJSON: JSON.stringify writes a Date as its ISO string
DateToJSON(date) == [type |-> "string"]

\* JSON.stringify of a NotePerformance: numbers and strings as they are, lastSeen as
\* a string
PerformanceToJSON(record) == [record EXCEPT !.lastSeen = DateToJSON(@)]

\* Array.from(performanceData.entries()): the [key, value] pairs in insertion order
Entries(performanceMap) ==
    [i \in 1..Len(performanceMap) |-> <<performanceMap[i].noteId, performanceMap[i]>>]

\* JSON.stringify of the entries; a text is held as the value JSON.parse reads from it
StringifyEntries(entries) ==
    [kind |-> "text",
     value |-> [i \in 1..Len(entries) |->
                    <<entries[i][1], PerformanceToJSON(entries[i][2])>>]]

\* JSON.stringify of notes or of a level name: strings and numbers only
Stringify(data) == [kind |-> "text", value |-> data]

\* JSON.parse
Parse(text) == text.value

\* StorageService.save with the text JSON.stringify produced
save(storage, key, text) == [storage EXCEPT ![key] = text]

\* StorageService.load: null (None) for an absent key, else the parsed value
load(storage, key) ==
    IF storage[key] = None THEN None
    ELSE [kind |-> "loaded", value |-> Parse(storage[key])]

\* StorageService.clear
clear(storage, key) == [storage EXCEPT ![key] = None]

\* new Map(savedData): the pairs' values under the pairs' keys, later pairs replacing
\* earlier ones of the same key
RECURSIVE NewMap(_, _)
NewMap(entries, k) ==
    IF k = 0 THEN <<>>
    ELSE MapSet(NewMap(entries, k - 1), [entries[k][2] EXCEPT !.noteId = entries[k][1]])

persistPerformanceData(storage, performanceMap, history, level) ==
    LET s1 == save(storage, "performance-data", StringifyEntries(Entries(performanceMap)))
        s2 == save(s1, "recent-history", Stringify(history))
    IN  save(s2, "current-level", Stringify(level))

\* loadPerformanceData that leaves the selection history as constructed
loadPerformanceDataWithoutHistory(storage) ==
    LET savedData == load(storage, "performance-data")
        savedLevel == load(storage, "current-level")
    IN  [performanceData |-> IF savedData # None
                             THEN NewMap(savedData.value, Len(savedData.value))
                             ELSE <<>>,
         recentHistory |-> <<>>,
         currentLevel |-> IF savedLevel # None THEN savedLevel.value ELSE "easy"]

\* loadPerformanceData in a newly constructed engine: each signal is set from its key
\* when the key holds something, and keeps its initial value otherwise
loadPerformanceData(storage) ==
    LET savedData == load(storage, "performance-data")
        savedHistory == load(storage, "recent-history")
        savedLevel == load(storage, "current-level")
    IN  [performanceData |-> IF savedData # None
                             THEN NewMap(savedData.value, Len(savedData.value))
                             ELSE <<>>,
         recentHistory |-> IF savedHistory # None THEN savedHistory.value ELSE <<>>,
         currentLevel |-> IF savedLevel # None THEN savedLevel.value ELSE "easy"]

-----------------------------------------------------------------------------
(* State after construction                                                *)

\* the services and the component as their constructors leave them (empty storage)
Constructed ==
    /\ performanceData = <<>>
    /\ currentLevel = "easy"
    /\ recentHistory = <<>>
    /\ difficultyMode = "default"
    /\ clefFilter = "both"
    /\ userProgress = getDefaultProgress
    /\ currentNote = None
    /\ pendingAnswer = None
    /\ hasAnswered = FALSE
    /\ isProcessing = FALSE
    /\ feedback = None
    /\ weightedNotes = <<>>
    /\ result = None
    /\ lastRecord = None
    /\ lastOp = "constructor"
    /\ globalStreak = 0
    /\ candidatePool = None
    /\ localStorage = EmptyStorage
    /\ showDifficultyDropdown = FALSE
    /\ showClefDropdown = FALSE
    /\ showNoteDropdown = FALSE
    /\ noScroll = FALSE

Init ==
    /\ Constructed
    /\ input = None

-----------------------------------------------------------------------------
(* NoteGeneratorService operations                                         *)

\* what a recordAnswer call leaves in lastRecord
Recorded(note, isCorrect, responseTimeMs, read) ==
    [kind |-> "recorded", noteId |-> note.id, isCorrect |-> isCorrect,
     responseTime |-> responseTimeMs, read |-> read]

GenerateNextNote(selectors) ==
    LET weighted == WeightedCandidates(currentLevel, difficultyMode, clefFilter,
                                       performanceData, recentHistory)
    IN  \E random \in RandomDraws(weighted, selectors) :
        LET out == SelectAndRemember(weighted, recentHistory, random)
        IN  /\ result' = out.result
            /\ recentHistory' = out.recentHistory
            /\ candidatePool' = PoolBuilt(currentLevel, difficultyMode, clefFilter,
                                          performanceData, recentHistory)
            /\ lastRecord' = None
            /\ lastOp' = "generateNextNote"
            /\ UNCHANGED <<performanceData, currentLevel, difficultyMode, clefFilter,
                           userProgress, tutorVars, pureVars, globalStreak, storageVars,
                   menuVars>>

RecordAnswer(notes, responseTimes) ==
    \E note \in notes, isCorrect \in BOOLEAN, responseTimeMs \in responseTimes :
        LET out == recordAnswer(performanceData, currentLevel, userProgress, note,
                                isCorrect, responseTimeMs)
        IN  /\ performanceData' = out.performanceData
            /\ currentLevel' = out.currentLevel
            /\ userProgress' = out.userProgress
            /\ lastRecord' = Recorded(note, isCorrect, responseTimeMs, out.read)
            /\ globalStreak' = IF isCorrect THEN globalStreak + 1 ELSE 0
            /\ result' = None
            /\ lastOp' = "recordAnswer"
            /\ UNCHANGED <<recentHistory, difficultyMode, clefFilter, tutorVars, pureVars,
                           ghostVars, storageVars,
                   menuVars>>

\* resetProgress also putting the two filters back to their initial values
ResetProgressWithFilters ==
    /\ performanceData' = <<>>
    /\ recentHistory' = <<>>
    /\ currentLevel' = "easy"
    /\ lastRecord' = None
    /\ result' = None
    /\ globalStreak' = 0
    /\ UNCHANGED menuVars
    /\ localStorage' = clear(clear(clear(localStorage, "performance-data"),
                                   "recent-history"), "current-level")
    /\ lastOp' = "resetProgress"
    /\ difficultyMode' = "default"
    /\ clefFilter' = "both"
    /\ UNCHANGED <<userProgress, tutorVars, pureVars, ghostVars>>

ResetProgress ==
    /\ performanceData' = <<>>
    /\ recentHistory' = <<>>
    /\ currentLevel' = "easy"
    /\ lastRecord' = None
    /\ result' = None
    /\ globalStreak' = 0
    /\ UNCHANGED menuVars
    /\ localStorage' = clear(clear(clear(localStorage, "performance-data"),
                                   "recent-history"), "current-level")
    /\ lastOp' = "resetProgress"
    /\ UNCHANGED <<difficultyMode, clefFilter, userProgress, tutorVars, pureVars,
                   ghostVars>>

SetDifficultyMode ==
    \E mode \in DifficultyModes :
        /\ difficultyMode' = mode
        /\ lastRecord' = None
        /\ result' = None
        /\ lastOp' = "setDifficultyMode"
        /\ UNCHANGED <<performanceData, currentLevel, recentHistory, clefFilter,
                       userProgress, tutorVars, pureVars, globalStreak, ghostVars,
                       storageVars,
                   menuVars>>

SetClefFilter ==
    \E filter \in ClefFilters :
        /\ clefFilter' = filter
        /\ lastRecord' = None
        /\ result' = None
        /\ lastOp' = "setClefFilter"
        /\ UNCHANGED <<performanceData, currentLevel, recentHistory, difficultyMode,
                       userProgress, tutorVars, pureVars, globalStreak, ghostVars,
                       storageVars,
                   menuVars>>

\* the service driven directly, within the bounds
ServiceGenerate ==
    /\ Len(recentHistory) < MaxGenerated
    /\ GenerateNextNote(ServiceSelectors)

ServiceRecord ==
    /\ TotalAttempts < MaxAttempts
    /\ RecordAnswer(RecordableNotes(currentLevel), ResponseTimes)

Next ==
    \/ ServiceGenerate
    \/ ServiceRecord
    \/ ResetProgress

Spec == Init /\ [][Next]_vars

-----------------------------------------------------------------------------
(* The history run: generateNextNote and resetProgress alone, no bound on calls *)

HistorySelectors == MidpointSelector \cup {RoundingSelector}

HistoryGenerate == GenerateNextNote(HistorySelectors)

NextHistory ==
    \/ HistoryGenerate
    \/ ResetProgress

SpecHistory == Init /\ [][NextHistory]_vars

-----------------------------------------------------------------------------
(* NoteTutor operations                                                    *)

\* handleAnswer: ignored without a note or once answered; else the answer is kept
\* pending until the next generateNewNote
\* handleAnswer without the hasAnswered test of its early return
HandleAnswerRepeated(answers, responseTimes) ==
    \E userAnswer \in answers, responseTime \in responseTimes :
        /\ IF currentNote = None
           THEN UNCHANGED <<pendingAnswer, feedback, hasAnswered>>
           ELSE LET isCorrect == validateAnswer(userAnswer, currentNote)
                IN  /\ pendingAnswer' = [kind |-> "pending", note |-> currentNote,
                                         userAnswer |-> userAnswer, isCorrect |-> isCorrect,
                                         responseTime |-> responseTime]
                    /\ feedback' = [kind |-> IF isCorrect THEN "correct" ELSE "incorrect"]
                    /\ hasAnswered' = TRUE
        /\ lastRecord' = None
        /\ result' = None
        /\ lastOp' = "handleAnswer"
        /\ UNCHANGED <<engineVars, userProgress, currentNote, isProcessing, pureVars,
                       globalStreak, ghostVars, storageVars,
                   menuVars>>

HandleAnswer(answers, responseTimes) ==
    \E userAnswer \in answers, responseTime \in responseTimes :
        /\ IF currentNote = None \/ hasAnswered
           THEN UNCHANGED <<pendingAnswer, feedback, hasAnswered>>
           ELSE LET isCorrect == validateAnswer(userAnswer, currentNote)
                IN  /\ pendingAnswer' = [kind |-> "pending", note |-> currentNote,
                                         userAnswer |-> userAnswer, isCorrect |-> isCorrect,
                                         responseTime |-> responseTime]
                    /\ feedback' = [kind |-> IF isCorrect THEN "correct" ELSE "incorrect"]
                    /\ hasAnswered' = TRUE
        /\ lastRecord' = None
        /\ result' = None
        /\ lastOp' = "handleAnswer"
        /\ UNCHANGED <<engineVars, userProgress, currentNote, isProcessing, pureVars,
                       globalStreak, ghostVars, storageVars,
                   menuVars>>

\* generateNewNote: records the pending answer with the generator, then with the
\* progress service, then asks the generator for the next note
GenerateNewNote(selectors) ==
    /\ IF pendingAnswer # None
       THEN LET recorded == recordAnswer(performanceData, currentLevel, userProgress,
                                         pendingAnswer.note, pendingAnswer.isCorrect,
                                         pendingAnswer.responseTime)
            IN  /\ performanceData' = recorded.performanceData
                /\ currentLevel' = recorded.currentLevel
                /\ userProgress' = recordQuestionAttempt(recorded.userProgress,
                                                         pendingAnswer.isCorrect)
                /\ lastRecord' = Recorded(pendingAnswer.note, pendingAnswer.isCorrect,
                                          pendingAnswer.responseTime, recorded.read)
                /\ globalStreak' = IF pendingAnswer.isCorrect THEN globalStreak + 1 ELSE 0
       ELSE /\ lastRecord' = None
            /\ UNCHANGED <<performanceData, currentLevel, userProgress, globalStreak>>
    /\ pendingAnswer' = None
    /\ hasAnswered' = FALSE
    /\ LET weighted == WeightedCandidates(currentLevel', difficultyMode, clefFilter,
                                          performanceData', recentHistory)
       IN  \E random \in RandomDraws(weighted, selectors) :
           LET out == SelectAndRemember(weighted, recentHistory, random)
           IN  /\ recentHistory' = out.recentHistory
               /\ currentNote' = IF out.result.kind = "ok" THEN out.result.note
                                 ELSE currentNote
               /\ feedback' = IF out.result.kind = "ok" THEN None
                              ELSE [kind |-> "incorrect"]
               /\ result' = out.result
    /\ candidatePool' = PoolBuilt(currentLevel', difficultyMode, clefFilter,
                                  performanceData', recentHistory)
    /\ isProcessing' = FALSE
    /\ lastOp' = "generateNewNote"
    /\ UNCHANGED <<difficultyMode, clefFilter, pureVars, storageVars,
                   menuVars>>

-----------------------------------------------------------------------------
(* The progression run: one learner answering note after note in the tutor *)

WrongName(noteName) == IF noteName = "C" THEN "D" ELSE "C"

RECURSIVE SumIncorrect(_, _)
SumIncorrect(performanceMap, k) ==
    IF k = 0 THEN 0
    ELSE SumIncorrect(performanceMap, k - 1)
            + performanceMap[k].attempts - performanceMap[k].correctAnswers

\* incorrect answers recorded or pending
IncorrectSoFar ==
    SumIncorrect(performanceData, Len(performanceData))
        + (IF pendingAnswer # None /\ ~pendingAnswer.isCorrect THEN 1 ELSE 0)

ProgressionAnswers ==
    IF currentNote = None THEN {<<"C">>}
    ELSE {<<currentNote.name>>} \cup
         (IF IncorrectSoFar < MaxIncorrect THEN {<<WrongName(currentNote.name)>>} ELSE {})

ProgressionAnswer ==
    /\ userProgress.totalQuestionsAnswered < MaxQuestions
    /\ HandleAnswer(ProgressionAnswers, ResponseTimes)

ProgressionNextNote == GenerateNewNote(MidpointSelector)

NextProgression ==
    \/ ProgressionAnswer
    \/ ProgressionNextNote

SpecProgression == Init /\ [][NextProgression]_vars

-----------------------------------------------------------------------------
(* calculateWeights as a function of its arguments                         *)

\* the longest per-note streak and attempt count of a drawn ledger record
MaxStreak == 4
\* the deepest 0-based history index a drawn history puts the note at
MaxRecency == 3

BaseWeightChoices == {Num(-1), Zero, Rat(1, 100), Rat(7, 10), Num(3)}

ClefDistributionChoices ==
    {createEasyConfig.clefDistribution,
     [trebleWeight |-> Zero, bassWeight |-> One],
     [trebleWeight |-> Num(2), bassWeight |-> Rat(1, 200)]}

\* the note the weight is computed for: the first treble and the first bass candidate
WeighedNotes ==
    {ClefCandidates(createEasyConfig, "treble")[1], ClefCandidates(createEasyConfig, "bass")[1]}

\* another catalog note, filling the history in front of the weighed one
FillerNote == ClefCandidates(createEasyConfig, "treble")[2]

\* a ledger record as updatePerformanceData stores it
PerformanceRecord(noteId, attempts, correct, streakCorrect, streakIncorrect) ==
    [noteId |-> noteId,
     attempts |-> attempts,
     correctAnswers |-> correct,
     accuracy |-> Rat(correct, attempts),
     lastSeen |-> [type |-> "Date"],
     averageResponseTime |-> Num(750),
     consecutiveCorrect |-> streakCorrect,
     consecutiveIncorrect |-> streakIncorrect,
     difficultyScore |-> difficultyScore(Rat(correct, attempts))]

LedgerChoices(noteId) ==
    {<<>>} \cup
    {<<PerformanceRecord(noteId, a, c, sc, si)>> :
        <<a, c, sc, si>> \in {q \in (1..MaxStreak) \X (0..MaxStreak) \X (0..MaxStreak)
                                        \X (0..MaxStreak) :
                                /\ q[2] <= q[1]
                                /\ q[3] <= q[2]
                                /\ q[4] <= q[1] - q[2]
                                /\ (q[3] = 0) # (q[4] = 0)}}

\* no history, another note alone, the note behind k other notes, and the note twice
HistoryChoices(note) ==
    {<<>>, <<FillerNote>>} \cup {[i \in 1..(k + 1) |-> IF i = k + 1 THEN note ELSE FillerNote] :
                    k \in 0..MaxRecency}
           \cup {<<note, FillerNote, note>>, <<FillerNote, note, FillerNote, note>>}

ConfigChoices(note) ==
    {[createEasyConfig EXCEPT !.clefDistribution = cd,
                              !.baseWeights = (note.id :> bw)] :
        cd \in ClefDistributionChoices, bw \in BaseWeightChoices}
    \cup {[createEasyConfig EXCEPT !.clefDistribution = cd,
                                   !.baseWeights = (FillerNote.id :> One)] :
            cd \in ClefDistributionChoices}

WeightInputs ==
    UNION {{[notes |-> <<note>>, config |-> config, performanceMap |-> ledger,
             recentHistory |-> history] :
              config \in ConfigChoices(note), ledger \in LedgerChoices(note.id),
              history \in HistoryChoices(note)} : note \in WeighedNotes}

InitWeights ==
    /\ Constructed
    /\ input \in WeightInputs

CalculateWeights ==
    /\ lastOp = "constructor"
    /\ weightedNotes' = calculateWeights(input.notes, input.config, input.performanceMap,
                                         input.recentHistory)
    /\ lastOp' = "calculateWeights"
    /\ UNCHANGED <<engineVars, userProgress, tutorVars, input, result, lastRecord,
                   globalStreak, ghostVars, storageVars,
                   menuVars>>

NextWeights == CalculateWeights

SpecWeights == InitWeights /\ [][NextWeights]_vars

-----------------------------------------------------------------------------
(* performWeightedSelection and the history update, as functions of the    *)
(* weighted candidates                                                     *)

\* the longest weighted candidate list drawn
MaxPool == 3

SelectionWeightChoices == {Rat(1, 100), Rat(1, 2), Num(2)}

\* the first k candidates of the easy pool under each choice of weights
WeightedChoices ==
    UNION {{[i \in 1..k |-> WithWeight(AllCandidates(createEasyConfig)[i], w[i])] :
              w \in [1..k -> SelectionWeightChoices]} : k \in 0..MaxPool}

\* an empty history and a full one
SelectionHistories == {<<>>, [i \in 1..maxHistorySize |-> FillerNote]}

InitSelect ==
    /\ Constructed
    /\ input \in {[weighted |-> w, recentHistory |-> h] :
                    w \in WeightedChoices, h \in SelectionHistories}

\* generateNextNote from performWeightedSelection on, for the weighted candidates given
PerformWeightedSelection ==
    /\ lastOp = "constructor"
    /\ \E random \in RandomDraws(input.weighted, Selectors(MaxPool) \cup {RoundingSelector}) :
         LET out == SelectAndRemember(input.weighted, input.recentHistory, random)
         IN  /\ result' = out.result
             /\ recentHistory' = out.recentHistory
    /\ weightedNotes' = input.weighted
    /\ lastOp' = "performWeightedSelection"
    /\ UNCHANGED <<performanceData, currentLevel, difficultyMode, clefFilter, userProgress,
                   tutorVars, input, lastRecord, globalStreak, ghostVars, storageVars,
                   menuVars>>

NextSelect == PerformWeightedSelection

SpecSelect == InitSelect /\ [][NextSelect]_vars

-----------------------------------------------------------------------------
(* Properties of calculateWeights (SpecWeights)                            *)

\* C1: for every candidate, ledger state, selection history and tier configuration
\* (any base weight, any clef distribution) every weight calculateWeights returns is
\* at least 0.01, hence never zero or negative.
C1_WeightAtLeastMinimum ==
    lastOp = "calculateWeights" =>
        /\ Len(weightedNotes) = Len(input.notes)
        /\ \A i \in 1..Len(weightedNotes) :
              /\ weightedNotes[i].id = input.notes[i].id
              /\ 100 * weightedNotes[i].weight.n >= weightedNotes[i].weight.d
              /\ weightedNotes[i].weight.n > 0

\* a weight was computed from a base weight that is not positive, and came out as 0.01
C1_ClampedWeightComputed ==
    /\ lastOp = "calculateWeights"
    /\ \E i \in 1..Len(weightedNotes) :
          /\ input.notes[i].id \in DOMAIN input.config.baseWeights
          /\ input.config.baseWeights[input.notes[i].id].n <= 0
          /\ Len(input.performanceMap) > 0
          /\ Len(input.recentHistory) > 0
          /\ weightedNotes[i].weight = Rat(1, 100)

-----------------------------------------------------------------------------
(* Properties of performWeightedSelection (SpecSelect)                     *)

\* C2: for a non-empty weighted candidate list and any draw, performWeightedSelection
\* returns an item whose id is one of the input's ids; when no item brings the running
\* remainder to <= 0, the item returned is the last candidate.
C2_SelectionReturnsInputItem ==
    (lastOp = "performWeightedSelection" /\ Len(input.weighted) > 0) =>
        /\ result.kind = "ok"
        /\ \E i \in 1..Len(input.weighted) : input.weighted[i].id = result.note.id
        /\ result.fallback => result.note.id = input.weighted[Len(input.weighted)].id

\* a draw that no subtraction brought to <= 0 returned the last of several candidates
C2_FallbackReturned ==
    /\ lastOp = "performWeightedSelection"
    /\ Len(input.weighted) > 1
    /\ result.kind = "ok"
    /\ result.fallback
    /\ result.note.id = input.weighted[Len(input.weighted)].id

\* C3: for an empty candidate sequence the selection fails with a distinct
\* EmptyCandidatePool error raised by an explicit guard, the error reaches the caller of
\* generateNextNote and the selection history is left unchanged.
C3_EmptyPoolRaisesEmptyCandidatePool ==
    (lastOp = "performWeightedSelection" /\ Len(input.weighted) = 0) =>
        /\ result = [kind |-> "throw", error |-> "EmptyCandidatePool"]
        /\ recentHistory = input.recentHistory

-----------------------------------------------------------------------------
(* Properties of the performance ledger (Spec)                             *)

\* the ledger's record of an item, None when it has none
LedgerRecord(performanceMap, noteId) ==
    IF PerfIndex(performanceMap, noteId) # 0
    THEN performanceMap[PerfIndex(performanceMap, noteId)] ELSE None

AttemptsOf(performanceMap, noteId) ==
    IF PerfIndex(performanceMap, noteId) # 0
    THEN performanceMap[PerfIndex(performanceMap, noteId)].attempts ELSE 0

CorrectOf(performanceMap, noteId) ==
    IF PerfIndex(performanceMap, noteId) # 0
    THEN performanceMap[PerfIndex(performanceMap, noteId)].correctAnswers ELSE 0

LedgerIds(performanceMap) == {performanceMap[k].noteId : k \in 1..Len(performanceMap)}

\* C4: without a reset no item's attempts or correctAnswers decreases: a recordAnswer for
\* item X raises X.attempts by exactly 1 and X.correctAnswers by 1 iff the answer was
\* correct, other steps and other items keep their counters, and correctAnswers <=
\* attempts holds for every record in every reachable state.
C4_CountersGrowByTheAnswer ==
    /\ [](\A k \in 1..Len(performanceData) :
            performanceData[k].correctAnswers <= performanceData[k].attempts)
    /\ [][lastOp' # "resetProgress" =>
            \A id \in LedgerIds(performanceData) \cup LedgerIds(performanceData') :
                LET answered == lastRecord' # None /\ lastRecord'.noteId = id
                IN  /\ AttemptsOf(performanceData', id)
                          = AttemptsOf(performanceData, id) + (IF answered THEN 1 ELSE 0)
                    /\ CorrectOf(performanceData', id)
                          = CorrectOf(performanceData, id)
                              + (IF answered /\ lastRecord'.isCorrect THEN 1 ELSE 0)]_vars

\* an item answered three times, correctly and incorrectly, the last time incorrectly
C4_MixedAnswersRecorded ==
    /\ lastRecord # None
    /\ ~lastRecord.isCorrect
    /\ AttemptsOf(performanceData, lastRecord.noteId) = 3
    /\ CorrectOf(performanceData, lastRecord.noteId) = 2

\* C5: after any recordAnswer, in the record of the item just answered exactly one of
\* consecutiveCorrect / consecutiveIncorrect is nonzero: a correct answer adds 1 to
\* consecutiveCorrect and sets consecutiveIncorrect to 0, an incorrect answer the reverse.
C5_OneStreakNonzero ==
    [][lastRecord' # None =>
        LET old == LedgerRecord(performanceData, lastRecord'.noteId)
            new == LedgerRecord(performanceData', lastRecord'.noteId)
            oldCorrect == IF old # None THEN old.consecutiveCorrect ELSE 0
            oldIncorrect == IF old # None THEN old.consecutiveIncorrect ELSE 0
        IN  /\ new # None
            /\ (new.consecutiveCorrect = 0) # (new.consecutiveIncorrect = 0)
            /\ lastRecord'.isCorrect =>
                  /\ new.consecutiveCorrect = oldCorrect + 1
                  /\ new.consecutiveIncorrect = 0
            /\ ~lastRecord'.isCorrect =>
                  /\ new.consecutiveIncorrect = oldIncorrect + 1
                  /\ new.consecutiveCorrect = 0]_vars

\* a correct answer has just ended a run of two incorrect answers to the same item
C5_StreakReset ==
    /\ lastRecord # None
    /\ lastRecord.isCorrect
    /\ AttemptsOf(performanceData, lastRecord.noteId) = 3
    /\ CorrectOf(performanceData, lastRecord.noteId) = 1
    /\ LedgerRecord(performanceData, lastRecord.noteId).consecutiveCorrect = 1
    /\ LedgerRecord(performanceData, lastRecord.noteId).consecutiveIncorrect = 0

\* C6: in every reachable ledger state each record's accuracy equals the correctAnswers /
\* attempts of that same record.
C6_AccuracyIsCorrectOverAttempts ==
    \A k \in 1..Len(performanceData) :
        /\ performanceData[k].attempts > 0
        /\ performanceData[k].accuracy.d > 0
        /\ performanceData[k].accuracy.n * performanceData[k].attempts
              = performanceData[k].correctAnswers * performanceData[k].accuracy.d

\* a record whose accuracy is 1/3, beside a second record
C6_FractionalAccuracyStored ==
    /\ Len(performanceData) = 2
    /\ \E k \in 1..Len(performanceData) :
          /\ performanceData[k].attempts = 2
          /\ performanceData[k].correctAnswers = 1
          /\ performanceData[k].accuracy = Rat(1, 2)

-----------------------------------------------------------------------------
(* Properties of the level progression (SpecProgression)                   *)

\* the tiers in order
Tiers == <<"easy", "hard", "mixed">>

TierIndex(level) == IndexOf(Tiers, level)

Criteria(level) == getLevelConfiguration(level).progressionCriteria

\* C7: the engine's tier never moves to an earlier tier and moves at most one position
\* forward per recordAnswer; whenever it moves from T to T+1, at that call the global
\* accuracy >= T.minAccuracy, the global question count >= T.minQuestions and the
\* learner's consecutive-correct streak >= T.consecutiveCorrect.
C7_TierMovesForwardOnCriteria ==
    [][/\ TierIndex(currentLevel') >= TierIndex(currentLevel)
       /\ TierIndex(currentLevel') <= TierIndex(currentLevel) + 1
       /\ currentLevel' # currentLevel =>
             /\ lastRecord' # None
             /\ lastRecord'.read.level = currentLevel
             /\ RGe(lastRecord'.read.overallAccuracy, Criteria(currentLevel).minAccuracy)
             /\ lastRecord'.read.totalQuestionsAnswered
                   >= Criteria(currentLevel).minQuestions
             /\ globalStreak' >= Criteria(currentLevel).consecutiveCorrect]_vars

\* an incorrect answer was recorded at tier easy when accuracy and question count met
\* the tier's criteria, and the tier stayed
C7_EvaluatedWithStreakBroken ==
    /\ lastRecord # None
    /\ ~lastRecord.isCorrect
    /\ lastRecord.read.level = "easy"
    /\ RGe(lastRecord.read.overallAccuracy, Criteria("easy").minAccuracy)
    /\ lastRecord.read.totalQuestionsAnswered >= Criteria("easy").minQuestions
    /\ globalStreak = 0
    /\ currentLevel = "easy"

\* C8: if, when an answer is recorded at a non-terminal tier T, the learner's global
\* accuracy, global question count and run of consecutive correct answers all meet T's
\* progression criteria, the tier advances to T+1 on that call, exactly once.
C8_CriteriaMetAdvancesTier ==
    (/\ lastRecord # None
     /\ TierIndex(lastRecord.read.level) < Len(Tiers) - 1
     /\ RGe(lastRecord.read.overallAccuracy, Criteria(lastRecord.read.level).minAccuracy)
     /\ RGe(userProgress.overallAccuracy, Criteria(lastRecord.read.level).minAccuracy)
     /\ lastRecord.read.totalQuestionsAnswered
           >= Criteria(lastRecord.read.level).minQuestions
     /\ globalStreak >= Criteria(lastRecord.read.level).consecutiveCorrect)
        => TierIndex(currentLevel) = TierIndex(lastRecord.read.level) + 1

\* C9: when the tutor records an answer, the progression evaluation that answer triggers
\* reads a global accuracy and question count that already include the answer.
C9_EvaluationReadsUpdatedStats ==
    lastRecord # None =>
        /\ lastRecord.read.totalQuestionsAnswered = userProgress.totalQuestionsAnswered
        /\ lastRecord.read.overallAccuracy = userProgress.overallAccuracy

-----------------------------------------------------------------------------
(* Properties of the selection history (SpecHistory)                       *)

\* C10: the selection history holds at most 10 entries; after a generateNextNote its
\* first entry is the item just returned and the rest are the first 9 entries of the
\* previous history in unchanged order; no other step but a full reset changes it.
C10_HistoryPushFrontTruncated ==
    /\ [](Len(recentHistory) <= 10)
    /\ [][((lastOp' = "generateNextNote" /\ result'.kind = "ok") =>
               (/\ recentHistory'[1] = result'.note
                /\ Len(recentHistory')
                      = 1 + (IF Len(recentHistory) < 9 THEN Len(recentHistory) ELSE 9)
                /\ \A i \in 2..Len(recentHistory') :
                      recentHistory'[i] = recentHistory[i - 1]))
           /\ ((lastOp' # "generateNextNote" /\ lastOp' # "resetProgress") =>
                  (recentHistory' = recentHistory))]_vars

\* a full history whose newest entry is the fallback candidate and whose oldest is not
C10_FullHistory ==
    /\ lastOp = "generateNextNote"
    /\ Len(recentHistory) = 10
    /\ result.kind = "ok"
    /\ result.fallback
    /\ recentHistory[1] = result.note
    /\ recentHistory[10] # result.note

-----------------------------------------------------------------------------
(* Properties of consecutive selections (SpecHistory)                      *)

\* C11: when the candidate pool holds at least two items, two consecutive
\* generateNextNote calls never return the same item.
C11_NoImmediateRepetition ==
    [][(/\ lastOp = "generateNextNote"
        /\ lastOp' = "generateNextNote"
        /\ result.kind = "ok"
        /\ result'.kind = "ok"
        /\ Len(candidatePool'.ids) >= 2)
            => result'.note.id # result.note.id]_vars

-----------------------------------------------------------------------------
(* The filters run: the service driven with its difficulty-mode and clef   *)
(* filters changing between calls                                          *)

\* recordAnswer calls in the filters run and in the pool run
MaxFilterAttempts == 1

FilterGenerate ==
    /\ Len(recentHistory) < MaxGenerated
    /\ GenerateNextNote(HistorySelectors)

\* the first note of the tier's catalog is the one answered
FilterNotes(level) == {AllCandidates(getLevelConfiguration(level))[1]}

FilterRecord ==
    /\ TotalAttempts < MaxFilterAttempts
    /\ RecordAnswer(FilterNotes(currentLevel), ResponseTimes)

NextFilters ==
    \/ FilterGenerate
    \/ FilterRecord
    \/ SetDifficultyMode
    \/ SetClefFilter
    \/ ResetProgress

SpecFilters == Init /\ [][NextFilters]_vars

-----------------------------------------------------------------------------
(* The pool run: notes generated one after another under unchanged         *)
(* filters, with answers recorded in between                               *)

\* generateNextNote calls in the pool run, between resets
MaxPoolGenerated == 3

PoolGenerate ==
    /\ Len(recentHistory) < MaxPoolGenerated
    /\ GenerateNextNote(HistorySelectors)

PoolRecord ==
    /\ TotalAttempts < MaxFilterAttempts
    /\ RecordAnswer(RecordableNotes(currentLevel), ResponseTimes)

NextPool ==
    \/ PoolGenerate
    \/ PoolRecord
    \/ ResetProgress

SpecPool == Init /\ [][NextPool]_vars

-----------------------------------------------------------------------------
(* Properties of the candidate pool (SpecFilters, SpecPool)                *)

Ids(notes) == [i \in 1..Len(notes) |-> notes[i].id]

\* the catalog of a level: every note its configuration generates, before any filter
Catalog(level) == AllCandidates(getLevelConfiguration(level))

\* the ids of the catalog items that pass the two membership tests, in catalog order
PassingIds(level, mode, filter) ==
    LET Passes(note) ==
            /\ mode # "default" =>
                 NoteKey(note.name, note.octave) \in DIFFICULTY_NOTE_RANGES[note.clef][mode]
            /\ filter # "both" => note.clef = filter
    IN  Ids(SelectSeq(Catalog(level), Passes))

\* C12: for every tier configuration, difficulty mode and clef filter, buildCandidatePool
\* returns exactly the catalog items that pass both membership tests, in catalog order
\* (mode # default: name+octave is listed in DIFFICULTY_NOTE_RANGES[clef][mode]; clef
\* filter # both: the clef equals the filter); with mode default and clef both it is the
\* full catalog, whatever the filters were before. Stated of the pool the last
\* generateNextNote built and of the pool the engine would build now at every tier.
C12_PoolIsFilteredCatalog ==
    /\ candidatePool # None =>
        /\ candidatePool.ids
              = PassingIds(candidatePool.level, candidatePool.mode, candidatePool.filter)
        /\ (candidatePool.mode = "default" /\ candidatePool.filter = "both") =>
             candidatePool.ids = Ids(Catalog(candidatePool.level))
    /\ \A level \in ConfiguredLevels :
          LET context == [performanceMap |-> performanceData,
                          recentHistory |-> recentHistory]
              pool == Ids(buildCandidatePool(level, difficultyMode, clefFilter, context))
          IN  /\ pool = PassingIds(level, difficultyMode, clefFilter)
              /\ (difficultyMode = "default" /\ clefFilter = "both") =>
                   pool = Ids(Catalog(level))

\* a note was generated from the 20 bass notes of the hard range
C12_FilteredPoolBuilt ==
    /\ lastOp = "generateNextNote"
    /\ candidatePool # None
    /\ candidatePool.mode = "hard"
    /\ candidatePool.filter = "bass"
    /\ Len(candidatePool.ids) = 20
    /\ result.kind = "ok"
    /\ result.note.clef = "bass"

\* C13: two calls of buildCandidatePool under the same tier configuration and the same
\* filters return the same ordered sequence of item ids, whatever recordAnswer and
\* generateNextNote calls happened in between: the pool a call builds is the pool a
\* fresh engine (empty ledger, empty history) builds under that level and those filters.
C13_PoolIndependentOfLedgerAndHistory ==
    candidatePool # None =>
        candidatePool.ids
            = PoolBuilt(candidatePool.level, candidatePool.mode, candidatePool.filter,
                        <<>>, <<>>).ids

\* a pool was built when the ledger held a record and the history held a note
C13_PoolBuiltAfterCalls ==
    /\ lastOp = "generateNextNote"
    /\ candidatePool # None
    /\ Len(performanceData) > 0
    /\ Len(recentHistory) >= 2
    /\ recentHistory[1].id # recentHistory[2].id

-----------------------------------------------------------------------------
(* The persistence run: the engine saving its three records after changes, *)
(* and a new engine being constructed over what was saved                  *)

\* recordAnswer calls in the persistence run, between resets
MaxPersistAttempts == 2

\* generateNextNote calls in the persistence run, between resets
MaxPersistGenerated == 2

\* the notes of the tier's catalog are answered one after another: the one answered
\* after answered answers
PersistNotes(level, answered) ==
    {AllCandidates(getLevelConfiguration(level))[answered + 1]}

PersistGenerate ==
    /\ Len(recentHistory) < MaxPersistGenerated
    /\ GenerateNextNote(HistorySelectors)

PersistRecord ==
    /\ TotalAttempts < MaxPersistAttempts
    /\ RecordAnswer(PersistNotes(currentLevel, TotalAttempts), ResponseTimes)

\* the constructor's effect: runs after construction and after a change of the
\* signals it reads, once
PersistPerformanceData ==
    /\ lastOp # "persistPerformanceData"
    /\ UNCHANGED menuVars
    /\ localStorage' = persistPerformanceData(localStorage, performanceData,
                                              recentHistory, currentLevel)
    /\ lastRecord' = None
    /\ result' = None
    /\ lastOp' = "persistPerformanceData"
    /\ UNCHANGED <<engineVars, userProgress, tutorVars, pureVars, globalStreak,
                   ghostVars>>

\* a new NoteGeneratorService constructed over the same localStorage (the page is
\* loaded again once the effect has run): the signals start from their initial
\* values, then loadPerformanceData runs
NewEngine ==
    /\ lastOp = "persistPerformanceData"
    /\ LET loaded == loadPerformanceData(localStorage)
       IN  /\ performanceData' = loaded.performanceData
           /\ recentHistory' = loaded.recentHistory
           /\ currentLevel' = loaded.currentLevel
    /\ difficultyMode' = "default"
    /\ clefFilter' = "both"
    /\ candidatePool' = None
    /\ lastRecord' = None
    /\ result' = None
    /\ lastOp' = "constructor"
    /\ UNCHANGED <<userProgress, tutorVars, pureVars, globalStreak, storageVars,
                   menuVars>>

NextPersist ==
    \/ PersistGenerate
    \/ PersistRecord
    \/ ResetProgress
    \/ PersistPerformanceData
    \/ NewEngine

SpecPersist == Init /\ [][NextPersist]_vars

-----------------------------------------------------------------------------
(* Properties of persistence (SpecPersist)                                 *)

\* C14: after the performance ledger is persisted and loaded again in a new engine,
\* every record's lastSeen is a timestamp value, not a string.
C14_LoadedLastSeenIsTimestamp ==
    lastOp = "constructor" =>
        \A i \in 1..Len(performanceData) : performanceData[i].lastSeen.type = "Date"

\* the counters of the ledger's records, in the ledger's order
Counters(performanceMap) ==
    [i \in 1..Len(performanceMap) |->
        [noteId |-> performanceMap[i].noteId,
         attempts |-> performanceMap[i].attempts,
         correctAnswers |-> performanceMap[i].correctAnswers,
         consecutiveCorrect |-> performanceMap[i].consecutiveCorrect,
         consecutiveIncorrect |-> performanceMap[i].consecutiveIncorrect]]

\* C15: persisting and then loading restores the three logical records: an engine
\* constructed right after persistPerformanceData ran has the same ledger entries
\* (ids with attempts, correctAnswers and streak counters, in the same order), the
\* same selection history in the same order, and the same current tier as the engine
\* that persisted.
C15_LoadRestoresPersistedRecords ==
    [][(lastOp = "persistPerformanceData" /\ lastOp' = "constructor")
          => /\ Counters(performanceData') = Counters(performanceData)
             /\ recentHistory' = recentHistory
             /\ currentLevel' = currentLevel]_vars

\* a new engine holds two ledger records and two different notes of history, read
\* from storage
C15_EngineLoadedFromStorage ==
    /\ lastOp = "constructor"
    /\ Len(performanceData) = 2
    /\ Len(recentHistory) = 2
    /\ recentHistory[1].id # recentHistory[2].id
    /\ localStorage["performance-data"] # None
    /\ localStorage["recent-history"] # None
    /\ Len(Parse(localStorage["recent-history"])) = 2
    /\ localStorage["current-level"] = Stringify(currentLevel)

-----------------------------------------------------------------------------
(* The timing run: answers recorded with response times of either sign     *)

\* recordAnswer calls in the timing run, between resets
MaxTimingAttempts == 2

\* response times in milliseconds, one of them negative
SignedResponseTimes == {-250, 0, 750}

TimingRecord ==
    /\ TotalAttempts < MaxTimingAttempts
    /\ RecordAnswer(RecordableNotes(currentLevel), SignedResponseTimes)

NextTiming ==
    \/ TimingRecord
    \/ ResetProgress

SpecTiming == Init /\ [][NextTiming]_vars

\* C16: a negative response time given to recordAnswer is rejected or clamped to 0,
\* so the averageResponseTime stored in the ledger is never negative.
C16_AverageResponseTimeNeverNegative ==
    \A i \in 1..Len(performanceData) :
        RLe(Zero, performanceData[i].averageResponseTime)

-----------------------------------------------------------------------------
(* Properties of the level configurations (Spec)                           *)

\* level names asked of getLevelConfiguration: the configured ones and two that
\* have no configuration
LevelNames == ConfiguredLevels \cup {"medium", "expert"}

\* the outcome is the thrown missing-configuration Error
NoConfiguration(outcome) ==
    /\ "kind" \in DOMAIN outcome
    /\ outcome.kind = "throw"
    /\ outcome.error = "Error: No configuration found for level"

\* C17: requesting the configuration of a tier that has none raises an error and never
\* returns the configuration of another tier; a tier that has one gets its own. Every
\* tier the engine is in after recordAnswer, generateNextNote and resetProgress calls
\* from a fresh start has a configuration, and so has the tier advanceLevel would
\* move to from any configured tier, so these operations never fail with a
\* missing configuration.
C17_MissingConfigurationRaisesAndNeverOccurs ==
    /\ \A level \in LevelNames :
          IF level \in ConfiguredLevels
          THEN /\ ~NoConfiguration(getLevelConfiguration(level))
               /\ getLevelConfiguration(level).level = level
          ELSE NoConfiguration(getLevelConfiguration(level))
    /\ currentLevel \in ConfiguredLevels
    /\ ~NoConfiguration(getLevelConfiguration(currentLevel))
    /\ \A level \in ConfiguredLevels :
          advanceLevel(level, userProgress).currentLevel \in ConfiguredLevels
    /\ result.kind = "throw" => result.error # "Error: No configuration found for level"

\* a note was generated with an answer in the ledger, the level's configuration read
C17_OperationsRanWithConfiguration ==
    /\ lastOp = "generateNextNote"
    /\ result.kind = "ok"
    /\ Len(performanceData) > 0
    /\ lastRecord = None
    /\ getLevelConfiguration(currentLevel).level = currentLevel

-----------------------------------------------------------------------------
(* Properties of the ledger's records over the service's operations (Spec) *)

\* C18: a ledger record exists for an item if and only if recordAnswer has been called
\* for that item since the last full reset: the ledger starts empty, recordAnswer adds
\* the answered item's record to those present (creating it on the first attempt),
\* resetProgress leaves none, and no other operation adds or removes a record.
C18_RecordsAreTheAnsweredItems ==
    /\ (lastOp = "constructor" => LedgerIds(performanceData) = {})
    /\ [][LedgerIds(performanceData')
            = CASE lastOp' = "resetProgress" -> {}
                [] lastOp' = "recordAnswer" ->
                        LedgerIds(performanceData) \cup {lastRecord'.noteId}
                [] OTHER -> LedgerIds(performanceData)]_vars

\* a second item's record was created while the first item's record stayed
C18_SecondRecordCreated ==
    /\ lastOp = "recordAnswer"
    /\ Len(performanceData) = 2
    /\ performanceData[2].noteId = lastRecord.noteId
    /\ performanceData[2].attempts = 1
    /\ performanceData[1].attempts = 2

-----------------------------------------------------------------------------
(* recordAnswer as a function of the tier and the learner's progress       *)

\* the progress record of a learner at level after questions answers with accuracy
ProgressAt(level, questions, accuracy) ==
    [currentLevel |-> level,
     totalQuestionsAnswered |-> questions,
     overallAccuracy |-> accuracy,
     levelProgression |->
        [i \in 1..(IndexOf(<<"easy", "hard", "mixed">>, level) + 1) |->
            [level |-> <<"easy", "hard", "mixed">>[i],
             questionsAtLevel |-> IF <<"easy", "hard", "mixed">>[i] = level
                                  THEN questions ELSE 0,
             accuracyAtLevel |-> IF <<"easy", "hard", "mixed">>[i] = level
                                 THEN accuracy ELSE Zero]]]

\* for a tier: a progress record just below, at or above the tier's question and
\* accuracy criteria, the learner's run of correct answers before the call, and the
\* answer
TierInputsAt(level) ==
    LET criteria == getLevelConfiguration(level).progressionCriteria
    IN  {[level |-> level,
          progress |-> ProgressAt(level, questions, accuracy),
          streak |-> streak,
          note |-> note,
          isCorrect |-> isCorrect] :
            questions \in {criteria.minQuestions + d : d \in {-1, 0, 1}},
            accuracy \in {Rat(1, 2), criteria.minAccuracy, One},
            streak \in {0, criteria.consecutiveCorrect},
            note \in FilterNotes(level),
            isCorrect \in BOOLEAN}

TierInputs == UNION {TierInputsAt(level) : level \in ConfiguredLevels}

InitTier ==
    /\ Constructed
    /\ input \in TierInputs

\* recordAnswer in an engine at the given tier with the given progress record
RecordAtTier ==
    /\ lastOp = "constructor"
    /\ \E responseTimeMs \in ResponseTimes :
         LET out == recordAnswer(performanceData, input.level, input.progress, input.note,
                                 input.isCorrect, responseTimeMs)
         IN  /\ performanceData' = out.performanceData
             /\ currentLevel' = out.currentLevel
             /\ userProgress' = out.userProgress
             /\ lastRecord' = Recorded(input.note, input.isCorrect, responseTimeMs,
                                       out.read)
    /\ globalStreak' = IF input.isCorrect THEN input.streak + 1 ELSE 0
    /\ result' = None
    /\ lastOp' = "recordAnswer"
    /\ UNCHANGED <<recentHistory, difficultyMode, clefFilter, tutorVars, pureVars,
                   ghostVars, storageVars,
                   menuVars>>

NextTier == RecordAtTier

SpecTier == InitTier /\ [][NextTier]_vars

\* C19: at the terminal (highest) tier there is no forward transition: recordAnswer
\* leaves the tier unchanged there even when all progression criteria are met, and the
\* progress collaborator is not asked to change level (its record is as it was).
C19_TerminalTierStays ==
    (/\ lastOp = "recordAnswer"
     /\ input # None
     /\ input.level = Tiers[Len(Tiers)])
        => /\ currentLevel = input.level
           /\ userProgress = input.progress
           /\ ~lastRecord.read.advanceCalled

\* an answer was recorded at tier mixed by a learner whose accuracy, question count
\* and run of correct answers meet the tier's criteria
C19_RecordedAtTerminalTierWithCriteriaMet ==
    /\ lastOp = "recordAnswer"
    /\ input # None
    /\ input.level = "mixed"
    /\ lastRecord.read.level = "mixed"
    /\ RGe(lastRecord.read.overallAccuracy, Criteria("mixed").minAccuracy)
    /\ lastRecord.read.totalQuestionsAnswered >= Criteria("mixed").minQuestions
    /\ globalStreak >= Criteria("mixed").consecutiveCorrect
    /\ currentLevel = "mixed"

-----------------------------------------------------------------------------
(* Properties of resetProgress (SpecFilters)                               *)

\* C20: after the engine's resetProgress, from any reachable state, the ledger is
\* empty, the selection history is empty and the current tier is the first tier
\* ('easy'); the difficulty-mode and clef filters are left as they were.
C20_ResetClearsAndKeepsFilters ==
    [][lastOp' = "resetProgress" =>
          /\ performanceData' = <<>>
          /\ recentHistory' = <<>>
          /\ currentLevel' = Tiers[1]
          /\ difficultyMode' = difficultyMode
          /\ clefFilter' = clefFilter]_vars

\* progress was reset in an engine that had generated a note, its filters set to the
\* hard range and the bass clef
C20_ResetUnderFilters ==
    /\ lastOp = "resetProgress"
    /\ candidatePool # None
    /\ difficultyMode = "hard"
    /\ clefFilter = "bass"
    /\ performanceData = <<>>
    /\ recentHistory = <<>>

-----------------------------------------------------------------------------
(* Properties of the weight formula (SpecWeights)                          *)

\* the tier's base weight for the item, 1.0 when it has none
BaseOf(note, config) ==
    IF note.id \in DOMAIN config.baseWeights THEN config.baseWeights[note.id] ELSE One

\* the tier's distribution weight of the item's clef
ClefWeightOf(note, config) ==
    IF note.clef = "treble" THEN config.clefDistribution.trebleWeight
    ELSE config.clefDistribution.bassWeight

\* the performance factor P: 1.3 without a ledger record, else (1 + (1 - accuracy) x 2),
\* times (1 + 0.5 x consecutiveIncorrect) when that is > 0, times 0.7 when
\* consecutiveCorrect > 3
PerformanceFactor(record) ==
    IF record = None THEN Rat(13, 10)
    ELSE LET struggling == RAdd(One, RMul(Num(2), RSub(One, record.accuracy)))
             missed == IF record.consecutiveIncorrect > 0
                       THEN Rat(2 + record.consecutiveIncorrect, 2) ELSE One
             mastered == IF record.consecutiveCorrect > 3 THEN Rat(7, 10) ELSE One
         IN  RMul(RMul(struggling, missed), mastered)

\* C21: for a candidate that is not in the selection history, calculateWeights returns
\* max(0.01, base x P x clefWeight), base being the tier's base weight for the item id
\* (1.0 when absent), clefWeight the tier's distribution weight of the item's clef and
\* P the performance factor.
C21_WeightIsBaseTimesPerformanceTimesClef ==
    lastOp = "calculateWeights" =>
        \A i \in 1..Len(weightedNotes) :
            (\A j \in 1..Len(input.recentHistory) :
                    input.recentHistory[j].id # input.notes[i].id)
                => weightedNotes[i].weight
                     = RMax(Rat(1, 100),
                            RMul(RMul(BaseOf(input.notes[i], input.config),
                                      PerformanceFactor(LedgerRecord(input.performanceMap,
                                                                     input.notes[i].id))),
                                 ClefWeightOf(input.notes[i], input.config)))

\* the weight of a note outside the history, with a run of 3 correct answers among 4
\* attempts and base weight 3, came out as 3 x 1.5 x 0.7 = 3.15
C21_WeightOfPractisedNoteComputed ==
    /\ lastOp = "calculateWeights"
    /\ Len(input.performanceMap) = 1
    /\ input.performanceMap[1].noteId = input.notes[1].id
    /\ input.performanceMap[1].attempts = 4
    /\ input.performanceMap[1].consecutiveCorrect = 3
    /\ input.recentHistory = <<FillerNote>>
    /\ input.notes[1].clef = "treble"
    /\ input.notes[1].id \in DOMAIN input.config.baseWeights
    /\ input.config.baseWeights[input.notes[1].id] = Num(3)
    /\ input.config.clefDistribution.trebleWeight = Rat(7, 10)
    /\ weightedNotes[1].weight = Rat(315, 100)

\* the recency multiplier of the claim: 0.7 at position 0, 0.4 at position 1 and the
\* floor 0.1 from position 2 on
RecencyMultiplier(k) ==
    CASE k = 0 -> Rat(7, 10)
      [] k = 1 -> Rat(4, 10)
      [] OTHER -> Rat(1, 10)

\* C22: if a candidate's id occurs in the selection history and k is the 0-based index
\* of its first (most recent) occurrence, its weight is multiplied by
\* max(0.1, 1 - (k+1) x 0.3): 0.7 at position 0, 0.4 at position 1 and 0.1 at every
\* position k >= 2, on top of base x P x clefWeight and under the final max(0.01, .).
C22_RecencyMultiplierByFirstOccurrence ==
    lastOp = "calculateWeights" =>
        \A i \in 1..Len(weightedNotes) :
            \A k \in 0..(Len(input.recentHistory) - 1) :
                (/\ input.recentHistory[k + 1].id = input.notes[i].id
                 /\ \A j \in 1..k : input.recentHistory[j].id # input.notes[i].id)
                    => /\ RecencyMultiplier(k)
                            = RMax(Rat(1, 10), RSub(One, Rat(3 * (k + 1), 10)))
                       /\ weightedNotes[i].weight
                            = RMax(Rat(1, 100),
                                   RMul(RMul(RMul(BaseOf(input.notes[i], input.config),
                                                  PerformanceFactor(
                                                      LedgerRecord(input.performanceMap,
                                                                   input.notes[i].id))),
                                             ClefWeightOf(input.notes[i], input.config)),
                                        RecencyMultiplier(k)))

\* the weight of an unattempted treble note of base weight 3 that is in the history
\* twice, first at position 1, came out as 3 x 1.3 x 0.4 x 0.7 = 1.092
C22_WeightOfRepeatedNoteComputed ==
    /\ lastOp = "calculateWeights"
    /\ input.performanceMap = <<>>
    /\ input.recentHistory = <<FillerNote, input.notes[1], FillerNote, input.notes[1]>>
    /\ input.notes[1].clef = "treble"
    /\ input.notes[1].id \in DOMAIN input.config.baseWeights
    /\ input.config.baseWeights[input.notes[1].id] = Num(3)
    /\ input.config.clefDistribution.trebleWeight = Rat(7, 10)
    /\ weightedNotes[1].weight = Rat(1092, 1000)

\* C23: among the items in the selection history the most recently selected one is
\* penalized hardest: the recency multiplier at position 0 is less than or equal to the
\* multiplier at every later position, and never decreases as the position grows.
C23_MostRecentPenalizedHardest ==
    lastOp = "calculateWeights" =>
        \A i \in 1..Len(weightedNotes) :
            LET k == FindIndex(input.recentHistory, input.notes[i].id)
            IN  k > 0 => /\ RLe(RecencyPenalty(0), RecencyPenalty(k))
                         /\ RLe(RecencyPenalty(k - 1), RecencyPenalty(k))

-----------------------------------------------------------------------------
(* The scenario run: one item answered again and again, the weights        *)
(* computed from the ledger after each answer                              *)

\* recordAnswer calls for the item in the scenario run
MaxScenarioAttempts == 10

\* the item answered: the first note of the first tier's catalog
ScenarioNote == AllCandidates(getLevelConfiguration("easy"))[1]

\* an item of the same clef that is never answered
UnattemptedNote == AllCandidates(getLevelConfiguration("easy"))[2]

ScenarioRecord ==
    /\ TotalAttempts < MaxScenarioAttempts
    /\ RecordAnswer({ScenarioNote}, ResponseTimes)

\* generateNextNote up to calculateWeights: the weights of the candidate pool under the
\* ledger and history of the moment
ScenarioWeights ==
    /\ lastOp = "recordAnswer"
    /\ weightedNotes' = WeightedCandidates(currentLevel, difficultyMode, clefFilter,
                                           performanceData, recentHistory)
    /\ lastOp' = "calculateWeights"
    /\ UNCHANGED <<engineVars, userProgress, tutorVars, input, result, lastRecord,
                   globalStreak, ghostVars, storageVars,
                   menuVars>>

NextScenario ==
    \/ ScenarioRecord
    \/ ScenarioWeights

SpecScenario == Init /\ [][NextScenario]_vars

\* the weight calculateWeights gave the candidate of that id
WeightOf(weighted, noteId) ==
    weighted[CHOOSE i \in 1..Len(weighted) : weighted[i].id = noteId].weight

\* C24: in every ledger state reachable by recordAnswer in which item X (base weight
\* 1.0, not in history) has 10 attempts with accuracy 0.2 and all other items are
\* unattempted, weight(X) equals 2.6 x categoryDist and is strictly greater than the
\* weight 1.3 x categoryDist of an unattempted item of the same category.
C24_StrugglingItemWeighs26 ==
    (/\ lastOp = "calculateWeights"
     /\ input = None
     /\ recentHistory = <<>>
     /\ LedgerIds(performanceData) = {ScenarioNote.id}
     /\ AttemptsOf(performanceData, ScenarioNote.id) = 10
     /\ LedgerRecord(performanceData, ScenarioNote.id).accuracy = Rat(2, 10))
        => LET categoryDist == ClefWeightOf(ScenarioNote, getLevelConfiguration(currentLevel))
           IN  /\ WeightOf(weightedNotes, ScenarioNote.id) = RMul(Rat(26, 10), categoryDist)
               /\ WeightOf(weightedNotes, UnattemptedNote.id)
                    = RMul(Rat(13, 10), categoryDist)
               /\ RLt(WeightOf(weightedNotes, UnattemptedNote.id),
                      WeightOf(weightedNotes, ScenarioNote.id))

-----------------------------------------------------------------------------
(* calculateWeights followed by performWeightedSelection, as functions of  *)
(* the pool, the configuration, the ledger and the history                 *)

\* pools of three candidates of both clefs; the first one is the note the drawn
\* configuration, ledger and history are about
SelectablePools ==
    {<<ClefCandidates(createEasyConfig, "treble")[1],
       ClefCandidates(createEasyConfig, "bass")[1], FillerNote>>,
     <<ClefCandidates(createEasyConfig, "bass")[1],
       ClefCandidates(createEasyConfig, "treble")[1], FillerNote>>}

\* no record, a mastered note and a note missed twice
SelectableLedgers(noteId) ==
    {<<>>, <<PerformanceRecord(noteId, 4, 4, 4, 0)>>, <<PerformanceRecord(noteId, 2, 0, 0, 2)>>}

SelectableInputs ==
    UNION {{[notes |-> pool, config |-> config, performanceMap |-> ledger,
             recentHistory |-> history] :
              config \in ConfigChoices(pool[1]), ledger \in SelectableLedgers(pool[1].id),
              history \in HistoryChoices(pool[1])} : pool \in SelectablePools}

InitSelectable ==
    /\ Constructed
    /\ input \in SelectableInputs

\* Math.random() * totalWeight: the drawn values that lie in [0, totalWeight)
DrawsBelowTotal(weighted) ==
    {random \in RandomDraws(weighted, Selectors(Len(weighted))) :
        RLe(Zero, random) /\ RLt(random, TotalWeight(weighted))}

\* generateNextNote from performWeightedSelection on, for the weights just computed
SelectFromWeights ==
    /\ lastOp = "calculateWeights"
    /\ \E random \in DrawsBelowTotal(weightedNotes) :
         LET out == SelectAndRemember(weightedNotes, input.recentHistory, random)
         IN  /\ result' = out.result
             /\ recentHistory' = out.recentHistory
    /\ lastOp' = "performWeightedSelection"
    /\ UNCHANGED <<performanceData, currentLevel, difficultyMode, clefFilter, userProgress,
                   tutorVars, pureVars, lastRecord, globalStreak, ghostVars, storageVars,
                   menuVars>>

NextSelectable ==
    \/ CalculateWeights
    \/ SelectFromWeights

SpecSelectable == InitSelectable /\ [][NextSelectable]_vars

\* C25: every candidate remains selectable: for any non-empty weighted set produced by
\* calculateWeights and for each candidate in it, there is a draw value in
\* [0, totalWeight) for which performWeightedSelection returns that candidate.
C25_EveryCandidateSelectable ==
    (lastOp = "calculateWeights" /\ Len(weightedNotes) > 0) =>
        \A i \in 1..Len(weightedNotes) :
            \E random \in DrawsBelowTotal(weightedNotes) :
                LET selected == performWeightedSelection(weightedNotes, random)
                IN  /\ selected.kind = "ok"
                    /\ ~selected.fallback
                    /\ selected.note.id = weightedNotes[i].id

\* the last candidate, its weight clamped to 0.01 under a clef weight of 0, was
\* selected by a draw below the total
C25_ClampedCandidateSelected ==
    /\ lastOp = "performWeightedSelection"
    /\ Len(weightedNotes) = 3
    /\ input.config.clefDistribution.trebleWeight = Zero
    /\ weightedNotes[3].weight = Rat(1, 100)
    /\ RLt(Rat(1, 100), weightedNotes[1].weight)
    /\ result.kind = "ok"
    /\ ~result.fallback
    /\ result.note.id = weightedNotes[3].id

-----------------------------------------------------------------------------
(* Properties of generateNextNote's effect (SpecFilters)                   *)

\* C26: generateNextNote changes only the selection history: the performance ledger,
\* the current tier, the filters and the tier configurations (constants of the model)
\* are the same before and after the call, the history gains the returned item at its
\* front, and the returned item is a member of the current filtered candidate pool.
C26_GenerateChangesOnlyHistory ==
    [][lastOp' = "generateNextNote" =>
          /\ performanceData' = performanceData
          /\ currentLevel' = currentLevel
          /\ difficultyMode' = difficultyMode
          /\ clefFilter' = clefFilter
          /\ userProgress' = userProgress
          /\ result'.kind = "ok"
          /\ \E i \in 1..Len(PassingIds(currentLevel, difficultyMode, clefFilter)) :
                PassingIds(currentLevel, difficultyMode, clefFilter)[i] = result'.note.id
          /\ recentHistory' # recentHistory
          /\ recentHistory'[1] = result'.note]_vars

\* a note of the easy range of the treble clef was generated with an answer in the ledger
C26_GeneratedUnderFiltersWithLedger ==
    /\ lastOp = "generateNextNote"
    /\ difficultyMode = "easy"
    /\ clefFilter = "treble"
    /\ Len(performanceData) > 0
    /\ result.kind = "ok"
    /\ result.note.clef = "treble"
    /\ recentHistory[1] = result.note

-----------------------------------------------------------------------------
(* The tutor run: the component's handlers for answers, the next note, the *)
(* two filter menus and the reset button                                   *)

\* answers the tutor takes in the tutor run, between resets
MaxTutorQuestions == 2

\* notes generated in the tutor run, between resets
MaxTutorGenerated == 3

\* generateNewNote called by a handler that has just put the engine and the progress
\* service into the given state: the pending answer, if any, is recorded with both,
\* then the next note is generated
GenerateNewNoteAfter(performanceMap, level, progress, history, mode, filter, streak, storage, selectors, handler) ==
    /\ IF pendingAnswer # None
       THEN \E recorded \in {recordAnswer(performanceMap, level, progress,
                                            pendingAnswer.note, pendingAnswer.isCorrect,
                                            pendingAnswer.responseTime)} :
                /\ performanceData' = recorded.performanceData
                /\ currentLevel' = recorded.currentLevel
                /\ userProgress' = recordQuestionAttempt(recorded.userProgress,
                                                         pendingAnswer.isCorrect)
                /\ lastRecord' = Recorded(pendingAnswer.note, pendingAnswer.isCorrect,
                                          pendingAnswer.responseTime, recorded.read)
                /\ globalStreak' = IF pendingAnswer.isCorrect THEN streak + 1 ELSE 0
       ELSE /\ performanceData' = performanceMap
            /\ currentLevel' = level
            /\ userProgress' = progress
            /\ lastRecord' = None
            /\ globalStreak' = streak
    /\ difficultyMode' = mode
    /\ clefFilter' = filter
    /\ localStorage' = storage
    /\ showDifficultyDropdown' = (handler # "selectDifficulty" /\ showDifficultyDropdown)
    /\ showClefDropdown' = (handler # "selectClef" /\ showClefDropdown)
    /\ UNCHANGED <<showNoteDropdown, noScroll>>
    /\ pendingAnswer' = None
    /\ hasAnswered' = FALSE
    /\ \E weighted \in {WeightedCandidates(currentLevel', difficultyMode', clefFilter',
                                              performanceData', history)} :
       \E random \in RandomDraws(weighted, selectors) :
       \E out \in {SelectAndRemember(weighted, history, random)} :
               /\ recentHistory' = out.recentHistory
               /\ currentNote' = IF out.result.kind = "ok" THEN out.result.note
                                 ELSE currentNote
               /\ feedback' = IF handler = "tutorResetProgress" THEN [kind |-> "hint"]
                              ELSE IF out.result.kind = "ok" THEN None
                              ELSE [kind |-> "incorrect"]
               /\ result' = out.result
    /\ candidatePool' = PoolBuilt(currentLevel', difficultyMode', clefFilter',
                                  performanceData', history)
    /\ isProcessing' = FALSE
    /\ lastOp' = handler
    /\ UNCHANGED pureVars

\* selectDifficulty: the engine's mode is set, then generateNewNote
SelectDifficulty(selectors) ==
    \E mode \in DifficultyModes :
        GenerateNewNoteAfter(performanceData, currentLevel, userProgress, recentHistory,
                             mode, clefFilter, globalStreak, localStorage, selectors,
                             "selectDifficulty")

\* selectClef: the engine's clef filter is set, then generateNewNote
SelectClef(selectors) ==
    \E filter \in ClefFilters :
        GenerateNewNoteAfter(performanceData, currentLevel, userProgress, recentHistory,
                             difficultyMode, filter, globalStreak, localStorage, selectors,
                             "selectClef")

\* resetProgress, confirmed: the engine's resetProgress, the progress service's
\* resetProgress, then generateNewNote and the hint
TutorResetProgress(selectors) ==
    GenerateNewNoteAfter(<<>>, "easy", getDefaultProgress, <<>>, difficultyMode, clefFilter,
                         0, clear(clear(clear(localStorage, "performance-data"),
                                        "recent-history"), "current-level"),
                         selectors, "tutorResetProgress")

\* answers given or pending
AnsweredSoFar ==
    userProgress.totalQuestionsAnswered + (IF pendingAnswer # None THEN 1 ELSE 0)

TutorAnswer ==
    /\ AnsweredSoFar < MaxTutorQuestions
    /\ HandleAnswer(ProgressionAnswers, ResponseTimes)

TutorNextNote ==
    /\ Len(recentHistory) < MaxTutorGenerated
    /\ GenerateNewNote(MidpointSelector)

TutorSelectDifficulty ==
    /\ Len(recentHistory) < MaxTutorGenerated
    /\ SelectDifficulty(MidpointSelector)

TutorSelectClef ==
    /\ Len(recentHistory) < MaxTutorGenerated
    /\ SelectClef(MidpointSelector)

TutorReset ==
    /\ lastOp # "tutorResetProgress"
    /\ TutorResetProgress(MidpointSelector)

NextTutor ==
    \/ TutorAnswer
    \/ TutorNextNote
    \/ TutorSelectDifficulty
    \/ TutorSelectClef
    \/ TutorReset

SpecTutor == Init /\ [][NextTutor]_vars

-----------------------------------------------------------------------------
(* Properties of the tutor's handlers (SpecTutor)                          *)

\* C27: after the tutor's confirmed resetProgress completes, the performance ledger is
\* empty and the global question count is 0, whatever the state before the reset,
\* including when an answered question was still pending.
C27_TutorResetLeavesNothing ==
    lastOp = "tutorResetProgress" =>
        /\ performanceData = <<>>
        /\ userProgress.totalQuestionsAnswered = 0

RECURSIVE SumCorrectAnswers(_, _)
SumCorrectAnswers(performanceMap, k) ==
    IF k = 0 THEN 0
    ELSE SumCorrectAnswers(performanceMap, k - 1) + performanceMap[k].correctAnswers

\* C29: starting from fresh state, after any sequence of tutor operations (answer, next
\* note, filter change, reset), the attempts of all ledger records sum to the progress
\* service's totalQuestionsAnswered, and their correctAnswers sum to
\* overallAccuracy x totalQuestionsAnswered.
C29_LedgerAndProgressAgree ==
    /\ SumAttempts(performanceData, Len(performanceData))
          = userProgress.totalQuestionsAnswered
    /\ Num(SumCorrectAnswers(performanceData, Len(performanceData)))
          = RMul(userProgress.overallAccuracy, Num(userProgress.totalQuestionsAnswered))

\* a filter change has recorded the second answer, one of the two answers being wrong
C29_MixedAnswersRecordedByFilterChange ==
    /\ lastOp \in {"selectDifficulty", "selectClef"}
    /\ lastRecord.kind = "recorded"
    /\ userProgress.totalQuestionsAnswered = 2
    /\ userProgress.overallAccuracy = Rat(1, 2)

-----------------------------------------------------------------------------
(* MusicalStaffComponent: where a note is drawn                            *)

lineSpacing == 18
staffCenterY == 150

\* staffLinePositions, top line first
staffLinePositions ==
    <<staffCenterY - lineSpacing * 2, staffCenterY - lineSpacing, staffCenterY,
      staffCenterY + lineSpacing, staffCenterY + lineSpacing * 2>>

\* the keys of calculateTreblePosition's table, lowest note first: each entry lies half
\* a line spacing above the one before, C4 one spacing below the bottom line
TrebleNoteKeys ==
    <<"C4", "D4", "E4", "F4", "G4", "A4", "B4", "C5", "D5", "E5", "F5", "G5", "A5", "B5",
      "C6", "D6", "E6", "F6", "G6", "A6", "B6", "C7">>

\* the keys of calculateBassPosition's table, lowest note first: each entry lies half a
\* line spacing above the one before, C1 five and a half spacings below the bottom line
BassNoteKeys ==
    <<"C1", "D1", "E1", "F1", "G1", "A1", "B1", "C2", "D2", "E2", "F2", "G2", "A2", "B2",
      "C3", "D3", "E3", "F3", "G3", "A3", "B3", "C4", "D4", "E4", "F4", "G4", "A4", "B4",
      "C5">>

\* notePositions[noteKey] ?? staffLines[2], with whether the key was found
PositionIn(noteKeys, lowest, noteKey) ==
    IF \E i \in 1..Len(noteKeys) : noteKeys[i] = noteKey
    THEN [found |-> TRUE,
          y |-> lowest - ((CHOOSE i \in 1..Len(noteKeys) : noteKeys[i] = noteKey) - 1)
                            * (lineSpacing \div 2)]
    ELSE [found |-> FALSE, y |-> staffLinePositions[3]]

calculateTreblePosition(note) ==
    PositionIn(TrebleNoteKeys, staffLinePositions[5] + lineSpacing,
               NoteKey(note.name, note.octave))

calculateBassPosition(note) ==
    PositionIn(BassNoteKeys, staffLinePositions[5] + 11 * (lineSpacing \div 2),
               NoteKey(note.name, note.octave))

calculateNotePosition(note) ==
    IF note.clef = "treble" THEN calculateTreblePosition(note)
    ELSE calculateBassPosition(note)

\* C28: every note generateNextNote returns, for any configured tier, difficulty mode
\* and clef filter, has its name and octave in the staff renderer's position table for
\* its clef, so it is never drawn at the default middle-line position.
C28_GeneratedNoteHasStaffPosition ==
    (lastOp = "generateNextNote" /\ result.kind = "ok") =>
        calculateNotePosition(result.note).found

-----------------------------------------------------------------------------
(* advanceLevel and getNextLevel as functions of the tier                  *)

\* getNextLevel: the next level, or null
getNextLevel(level) ==
    LET levels == <<"easy", "hard", "mixed">>
        currentIndex == IndexOf(levels, level)
    IN  IF currentIndex >= 0 /\ currentIndex < Len(levels) - 1
        THEN [kind |-> "level", value |-> levels[(currentIndex + 1) + 1]]
        ELSE None

\* advanceLevel in an engine at the given tier, and getNextLevel asked about that tier
AdvanceAtTier ==
    /\ lastOp = "constructor"
    /\ currentLevel' = advanceLevel(input.level, input.progress).currentLevel
    /\ userProgress' = advanceLevel(input.level, input.progress).userProgress
    /\ result' = getNextLevel(input.level)
    /\ lastRecord' = None
    /\ lastOp' = "advanceLevel"
    /\ UNCHANGED <<performanceData, recentHistory, difficultyMode, clefFilter, tutorVars,
                   pureVars, globalStreak, ghostVars, storageVars,
                   menuVars>>

NextAdvance == AdvanceAtTier

SpecAdvance == InitTier /\ [][NextAdvance]_vars

\* C30: for every tier of the DifficultyLevel enumeration, the tier advanceLevel moves to
\* is the tier getNextLevel returns for it, and advanceLevel leaves the tier unchanged
\* exactly when getNextLevel returns null.
C30_AdvanceLevelFollowsGetNextLevel ==
    lastOp = "advanceLevel" =>
        /\ result.kind = "level" => currentLevel = result.value
        /\ (currentLevel = input.level) <=> (result.kind = "none")

-----------------------------------------------------------------------------
(* Properties of the tutor's answer cycle (SpecTutor)                      *)

\* the handlers that run generateNewNote
GenerateHandlers == {"generateNewNote", "selectDifficulty", "selectClef", "tutorResetProgress"}

\* C31: each presented note gives rise to at most one recorded attempt: once
\* handleAnswer has accepted an answer, further handleAnswer calls for that note are
\* ignored; the pending answer goes to recordAnswer and recordQuestionAttempt exactly
\* once, at the next generateNewNote, after which no pending answer remains.
C31_OneRecordedAttemptPerPresentedNote ==
    [][/\ (lastOp' = "handleAnswer") =>
            /\ UNCHANGED <<performanceData, userProgress>>
            /\ hasAnswered => UNCHANGED pendingAnswer
            /\ pendingAnswer' # None => pendingAnswer'.note = currentNote
       /\ (lastOp' \in GenerateHandlers) =>
            LET reset == lastOp' = "tutorResetProgress"
                attempts == IF reset THEN 0
                            ELSE SumAttempts(performanceData, Len(performanceData))
                questions == IF reset THEN 0 ELSE userProgress.totalQuestionsAnswered
                recorded == IF pendingAnswer # None THEN 1 ELSE 0
            IN  /\ pendingAnswer' = None
                /\ ~hasAnswered'
                /\ SumAttempts(performanceData', Len(performanceData')) = attempts + recorded
                /\ userProgress'.totalQuestionsAnswered = questions + recorded
                /\ IF pendingAnswer # None
                   THEN /\ lastRecord'.kind = "recorded"
                        /\ lastRecord'.noteId = pendingAnswer.note.id
                        /\ lastRecord'.isCorrect = pendingAnswer.isCorrect
                   ELSE lastRecord' = None
                /\ result'.kind = "ok" /\ currentNote' = result'.note]_vars

\* the second note's answer has been recorded by the generateNewNote after it
C31_SecondAnswerRecordedAtNextNote ==
    /\ lastOp = "generateNewNote"
    /\ lastRecord.kind = "recorded"
    /\ userProgress.totalQuestionsAnswered = 2
    /\ pendingAnswer = None

-----------------------------------------------------------------------------
(* Frame of recordAnswer (Spec)                                            *)

\* C32: recordAnswer for item X changes only X's ledger record (and possibly the tier):
\* the records of all other items, the selection history and the difficulty-mode and
\* clef filters are the same before and after the call.
C32_RecordAnswerChangesOnlyItsRecord ==
    [][lastOp' = "recordAnswer" =>
          /\ \A k \in 1..Len(performanceData) :
                performanceData[k].noteId # lastRecord'.noteId =>
                    /\ k <= Len(performanceData')
                    /\ performanceData'[k] = performanceData[k]
          /\ \A k \in 1..Len(performanceData') :
                performanceData'[k].noteId # lastRecord'.noteId =>
                    /\ k <= Len(performanceData)
                    /\ performanceData[k] = performanceData'[k]
          /\ recentHistory' = recentHistory
          /\ difficultyMode' = difficultyMode
          /\ clefFilter' = clefFilter]_vars

\* an incorrect answer was recorded for the second item while the first item's record,
\* holding a run of correct answers, and a non-empty history were there
C32_RecordedBesideAnotherRecord ==
    /\ lastOp = "recordAnswer"
    /\ ~lastRecord.isCorrect
    /\ Len(performanceData) = 2
    /\ performanceData[2].noteId = lastRecord.noteId
    /\ performanceData[1].consecutiveCorrect = 2
    /\ Len(recentHistory) = 1

-----------------------------------------------------------------------------
(* generateNextNote as a function of the tier, under every filter setting  *)

\* generateNextNote calls of the run
MaxTierGenerated == 2

InitTierPool ==
    /\ Constructed
    /\ input \in {[level |-> level] : level \in ConfiguredLevels}

\* generateNextNote in an engine at the given tier
GenerateAtTier ==
    /\ Len(recentHistory) < MaxTierGenerated
    /\ currentLevel' = input.level
    /\ \E weighted \in {WeightedCandidates(currentLevel', difficultyMode, clefFilter,
                                           performanceData, recentHistory)} :
       \E random \in RandomDraws(weighted, HistorySelectors) :
       \E out \in {SelectAndRemember(weighted, recentHistory, random)} :
            /\ result' = out.result
            /\ recentHistory' = out.recentHistory
    /\ candidatePool' = PoolBuilt(currentLevel', difficultyMode, clefFilter,
                                  performanceData, recentHistory)
    /\ lastRecord' = None
    /\ lastOp' = "generateNextNote"
    /\ UNCHANGED <<performanceData, difficultyMode, clefFilter, userProgress, tutorVars,
                   pureVars, globalStreak, storageVars,
                   menuVars>>

NextTierPool ==
    \/ GenerateAtTier
    \/ SetDifficultyMode
    \/ SetClefFilter

SpecTierPool == InitTierPool /\ [][NextTierPool]_vars

\* C33: for every configured tier, every difficulty mode and every clef filter, the
\* filtered candidate pool is non-empty, so generateNextNote returns a note and never
\* fails on an empty pool.
C33_PoolNeverEmpty ==
    /\ \A mode \in DifficultyModes, filter \in ClefFilters :
          Len(buildCandidatePool(input.level, mode, filter,
                                 [performanceMap |-> performanceData,
                                  recentHistory |-> recentHistory])) > 0
    /\ lastOp = "generateNextNote" =>
          /\ candidatePool.level = input.level
          /\ Len(candidatePool.ids) > 0
          /\ result.kind = "ok"

\* a note was generated at tier hard under the easy range and the bass clef alone
C33_GeneratedAtHardTierUnderBothFilters ==
    /\ lastOp = "generateNextNote"
    /\ input.level = "hard"
    /\ candidatePool.mode = "easy"
    /\ candidatePool.filter = "bass"
    /\ result.kind = "ok"
    /\ result.note.clef = "bass"

-----------------------------------------------------------------------------
(* The tutor over an engine that loaded its tier from storage              *)

\* the page opens with a tier name under the 'current-level' key
InitStored ==
    /\ Constructed
    /\ input \in {[level |-> level] : level \in LevelNames}

\* the engine's constructor finding that tier name: loadPerformanceData sets the tier
NewEngineFromStorage ==
    /\ lastOp = "constructor"
    /\ localStorage = EmptyStorage
    /\ UNCHANGED menuVars
    /\ localStorage' = save(localStorage, "current-level", Stringify(input.level))
    /\ currentLevel' = loadPerformanceData(localStorage').currentLevel
    /\ performanceData' = loadPerformanceData(localStorage').performanceData
    /\ recentHistory' = loadPerformanceData(localStorage').recentHistory
    /\ lastRecord' = None
    /\ result' = None
    /\ lastOp' = "loadPerformanceData"
    /\ UNCHANGED <<difficultyMode, clefFilter, userProgress, tutorVars, pureVars,
                   globalStreak, ghostVars>>

\* generateNewNote's catch and finally after generateNextNote threw: the error feedback,
\* isProcessing cleared, the current note as it was
GenerationFailedWithoutFinally ==
    /\ hasAnswered' = FALSE
    /\ feedback' = [kind |-> "incorrect"]
    /\ isProcessing' = TRUE
    /\ UNCHANGED currentNote

GenerationFailed ==
    /\ hasAnswered' = FALSE
    /\ feedback' = [kind |-> "incorrect"]
    /\ isProcessing' = FALSE
    /\ UNCHANGED currentNote

\* generateNewNote over an engine whose tier may have no configuration: recordAnswer
\* (outside the try) and generateNextNote (inside it) both ask for the configuration
GenerateNewNoteStored(selectors) ==
    IF currentLevel \in ConfiguredLevels
    THEN GenerateNewNote(selectors)
    ELSE IF pendingAnswer # None
    THEN /\ performanceData' = updatePerformanceData(performanceData, pendingAnswer.note,
                                                     pendingAnswer.isCorrect,
                                                     pendingAnswer.responseTime)
         /\ result' = [kind |-> "throw", error |-> getLevelConfiguration(currentLevel).error,
                       caught |-> FALSE]
         /\ lastRecord' = None
         /\ lastOp' = "generateNewNote"
         /\ UNCHANGED <<currentLevel, recentHistory, difficultyMode, clefFilter, userProgress,
                        tutorVars, pureVars, globalStreak, ghostVars, storageVars,
                   menuVars>>
    ELSE /\ GenerationFailed
         /\ result' = [kind |-> "throw", error |-> getLevelConfiguration(currentLevel).error,
                       caught |-> TRUE]
         /\ lastRecord' = None
         /\ lastOp' = "generateNewNote"
         /\ UNCHANGED <<engineVars, userProgress, pendingAnswer, pureVars, globalStreak,
                        ghostVars, storageVars,
                   menuVars>>

StoredNextNote ==
    /\ lastOp # "constructor"
    /\ Len(recentHistory) < MaxTutorGenerated
    /\ GenerateNewNoteStored(MidpointSelector)

StoredAnswer ==
    /\ lastOp # "constructor"
    /\ AnsweredSoFar < MaxTutorQuestions
    /\ HandleAnswer(ProgressionAnswers, ResponseTimes)

StoredReset ==
    /\ lastOp \notin {"constructor", "tutorResetProgress"}
    /\ TutorResetProgress(MidpointSelector)

NextStored ==
    \/ NewEngineFromStorage
    \/ StoredNextNote
    \/ StoredAnswer
    \/ StoredReset

SpecStored == InitStored /\ [][NextStored]_vars

\* C34: after the tutor's generateNewNote returns, isProcessing is false and hasAnswered
\* is false, also when note generation throws; in the failing case the current note is
\* left unchanged and an error feedback is set instead of the exception reaching the
\* caller.
C34_GenerateNewNoteEndsIdle ==
    /\ [](lastOp = "generateNewNote" =>
            /\ ~isProcessing
            /\ ~hasAnswered
            /\ result.kind = "throw" => (result.caught /\ feedback = [kind |-> "incorrect"]))
    /\ [][(lastOp' = "generateNewNote" /\ result'.kind = "throw") =>
            currentNote' = currentNote]_vars

\* generateNewNote has returned after generateNextNote threw for a tier without
\* configuration
C34_GenerationFailedAndCaught ==
    /\ lastOp = "generateNewNote"
    /\ currentLevel = "expert"
    /\ result.kind = "throw"
    /\ feedback = [kind |-> "incorrect"]
    /\ currentNote = None

-----------------------------------------------------------------------------
(* NoteTutor: the three filter dropdowns and the page's scroll lock        *)

\* what the dropdown handlers leave alone
beyondMenus == <<engineVars, userProgress, tutorVars, pureVars, globalStreak, ghostVars,
                 storageVars>>

ToggleDifficultyDropdown ==
    /\ showDifficultyDropdown' = ~showDifficultyDropdown
    /\ IF showDifficultyDropdown'
       THEN /\ showClefDropdown' = FALSE
            /\ showNoteDropdown' = FALSE
            /\ noScroll' = TRUE
       ELSE UNCHANGED <<showClefDropdown, showNoteDropdown, noScroll>>
    /\ lastRecord' = None
    /\ result' = None
    /\ lastOp' = "toggleDifficultyDropdown"
    /\ UNCHANGED beyondMenus

ToggleClefDropdown ==
    /\ showClefDropdown' = ~showClefDropdown
    /\ IF showClefDropdown'
       THEN /\ showDifficultyDropdown' = FALSE
            /\ showNoteDropdown' = FALSE
            /\ noScroll' = TRUE
       ELSE UNCHANGED <<showDifficultyDropdown, showNoteDropdown, noScroll>>
    /\ lastRecord' = None
    /\ result' = None
    /\ lastOp' = "toggleClefDropdown"
    /\ UNCHANGED beyondMenus

ToggleNoteDropdown ==
    /\ showNoteDropdown' = ~showNoteDropdown
    /\ IF showNoteDropdown'
       THEN /\ showDifficultyDropdown' = FALSE
            /\ showClefDropdown' = FALSE
            /\ noScroll' = TRUE
       ELSE UNCHANGED <<showDifficultyDropdown, showClefDropdown, noScroll>>
    /\ lastRecord' = None
    /\ result' = None
    /\ lastOp' = "toggleNoteDropdown"
    /\ UNCHANGED beyondMenus

\* the body of onDocumentClick for a click outside the dropdowns, and of onEscapeKey:
\* each open dropdown is closed and the background enabled
CloseOpenDropdowns ==
    /\ showDifficultyDropdown' = FALSE
    /\ showClefDropdown' = FALSE
    /\ showNoteDropdown' = FALSE
    /\ noScroll' = IF showDifficultyDropdown \/ showClefDropdown \/ showNoteDropdown
                   THEN FALSE ELSE noScroll

\* onDocumentClick: nothing for a click inside a dropdown
OnDocumentClick ==
    /\ \E inside \in BOOLEAN :
          IF inside THEN UNCHANGED menuVars ELSE CloseOpenDropdowns
    /\ lastRecord' = None
    /\ result' = None
    /\ lastOp' = "onDocumentClick"
    /\ UNCHANGED beyondMenus

OnEscapeKey ==
    /\ CloseOpenDropdowns
    /\ lastRecord' = None
    /\ result' = None
    /\ lastOp' = "onEscapeKey"
    /\ UNCHANGED beyondMenus

\* selectNote: the dropdown is closed, then the call of setNoteFilter, which the engine
\* does not have, throws before generateNewNote
SelectNote ==
    /\ showNoteDropdown' = FALSE
    /\ UNCHANGED <<showDifficultyDropdown, showClefDropdown, noScroll>>
    /\ lastRecord' = None
    /\ result' = [kind |-> "throw", error |-> "TypeError"]
    /\ lastOp' = "selectNote"
    /\ UNCHANGED beyondMenus

\* an option is chosen from a dropdown that is open
MenuSelectDifficulty ==
    /\ showDifficultyDropdown
    /\ Len(recentHistory) < MaxTutorGenerated
    /\ SelectDifficulty(MidpointSelector)

MenuSelectClef ==
    /\ showClefDropdown
    /\ Len(recentHistory) < MaxTutorGenerated
    /\ SelectClef(MidpointSelector)

MenuSelectNote ==
    /\ showNoteDropdown
    /\ SelectNote

NextMenus ==
    \/ ToggleDifficultyDropdown
    \/ ToggleClefDropdown
    \/ ToggleNoteDropdown
    \/ OnDocumentClick
    \/ OnEscapeKey
    \/ MenuSelectDifficulty
    \/ MenuSelectClef
    \/ MenuSelectNote

SpecMenus == Init /\ [][NextMenus]_vars

\* C35: after any sequence of dropdown toggle, option select, outside-click and Escape
\* events in the tutor, the page background is scroll-locked (body carries 'no-scroll')
\* exactly when one of the three filter dropdowns is open.
C35_ScrollLockedIffDropdownOpen ==
    noScroll <=> (showDifficultyDropdown \/ showClefDropdown \/ showNoteDropdown)

=============================================================================
